---- MODULE Spec2Model ----
(***************************************************************************)
(* Verification model of the MetaTrader 4 MCP bridge: the MCP server       *)
(* (src/src/index.ts), the HTTP bridge (src/windows-server/server.js and   *)
(* its enhanced variant src/unnamed/part_008) and the terminal-side Expert *)
(* Advisor MCPBridge.mq4.                                                  *)
(*                                                                         *)
(* Text is modelled as a sequence of one-character strings, so that the    *)
(* hand-written scanners and splitters of the code are computed character  *)
(* by character, exactly as the code computes them.                        *)
(***************************************************************************)
EXTENDS Integers, Sequences, FiniteSets, TLC

VARIABLES
    \* --- ExtractJsonValue harness (MCPBridge.mq4)
    jsonObj,        \* the members of the flat object handed to the scanner
    jsonKey,        \* the key looked up
    jsonValue,      \* what ExtractJsonValue returned
    jsonPc,         \* "ready" | "done"
    \* --- positions snapshot (WritePositionsInfo / GET /api/positions)
    orderPool,      \* the terminal's trade pool, as OrderSelect enumerates it
    positionsTxt,   \* positions.txt: [exists, text]
    positionsResp,  \* the answer of GET /api/positions, or NoResponse
    historyTxt,     \* historyTxt[days]: history_<days>d.txt, [exists, text]
    historyResp,    \* the answer of the last GET /api/history, or NoResponse
    \* --- command / result files between the bridge and the terminal
    folderTypes,    \* each folder under the Terminal directory: "terminal" | "bare" | "other"
    eaFolder,       \* the folder of the terminal the expert runs in, 0 when none
    files,          \* files[folder][name]: [exists, id, text] under MQL4/Files
    reqs,           \* the HTTP requests accepted so far, in order of arrival
    tpc,            \* the expert's position in OnTick: [kind, stage]
    tbuf,           \* the command text the expert has read: [id, text]
    openTickets,    \* tickets of the open orders
    closedTickets,  \* tickets of the closed orders
    executed,       \* executed[id]: how often command id was handed to Execute*Command
    overwritten,    \* ids of commands replaced in the command file before being read
    deletedUnread,  \* ids of commands deleted from the command file without being read
    accepted,       \* ids of order / close commands executed while the broker was willing
    \* --- POST /api/ea/compile (enhanced bridge)
    cenv,           \* the bridge's file system: [accessible, executable, editor, experts, eaFile]
    cpc,            \* the request: "idle" | "pending" (awaiting compileEA) | "answered"
    proc,           \* the compiler process: "none" | "failed" | "running" | "exited" | "killed"
    timer,          \* the 30 s timer of compileEA: "unset" | "armed" | "fired"
    closePc,        \* the 'close' listener: "none" | "readlog" | "access" | "done"
    outcome,        \* what the compiler left behind: [code, log, ex4]
    cresp,          \* the answer of POST /api/ea/compile, or NoResponse
    \* --- sync_ea (MCP server) and POST /api/ea/upload (enhanced bridge)
    benv,           \* the bridge: [bridge, experts]
    expertsFiles,   \* expertsFiles[name]: <name>.mq4 in the terminal's MQL4/Experts
    active,         \* active[name]: ea-strategies/active/<name>.mq4, [exists, content, writer]
    synclog,        \* synclog[name]: ea-strategies/logs/<name>_sync.log, [kind, writer]
    calls,          \* the sync_ea calls received so far, in order of arrival
    complog,        \* complog[name]: ea-strategies/logs/<name>_compilation.log, [kind, writer]
    compiled,       \* compiled[name]: ea-strategies/compiled/<name>.mq4, [exists, writer]
    compiles,       \* the compile_ea calls received so far, in order of arrival
    \* --- the MCP server's tool dispatch (index.ts)
    tc,             \* the tool call in hand: [pc, name, args, http, api, fallback, result]
    reports,        \* the files under the reports path: [status, results]
    \* --- the breakout experts (BreakoutEA, BacktestBreakoutEA, AdvancedBreakoutEA)
    eaInputs,       \* the expert attached and its inputs: [name, MaxTrades, UseMomentumFilter]
    Bid,            \* the symbol's bid price
    AccountBalance, \* the account balance
    g_dailyBalance, \* the balance the daily loss is measured from
    trades,         \* the open orders with the expert's magic number: [ticket, type, open, sl, tp]
    lastBar         \* what OnTick did on the last new bar: [seq, limit, opened] (history)

varsJson == <<jsonObj, jsonKey, jsonValue, jsonPc>>
varsPositions == <<orderPool, positionsTxt, positionsResp, historyTxt, historyResp>>
varsBridge == <<folderTypes, eaFolder, files, reqs, tpc, tbuf, openTickets, closedTickets,
                executed, overwritten, deletedUnread, accepted>>
vars == <<jsonObj, jsonKey, jsonValue, jsonPc, orderPool, positionsTxt, positionsResp,
          historyTxt, historyResp,
          folderTypes, eaFolder, files, reqs, tpc, tbuf, openTickets, closedTickets,
          executed, overwritten, deletedUnread, accepted,
          cenv, cpc, proc, timer, closePc, outcome, cresp,
          benv, expertsFiles, active, synclog, calls, complog, compiled, compiles,
          tc, reports,
          eaInputs, Bid, AccountBalance, g_dailyBalance, trades, lastBar>>
varsTools == <<tc, reports>>
varsSync == <<benv, expertsFiles, active, synclog, calls, complog, compiled, compiles>>
varsCompile == <<cenv, cpc, proc, timer, closePc, outcome, cresp>>
varsBreakout == <<eaInputs, Bid, AccountBalance, g_dailyBalance, trades, lastBar>>

\* No breakout expert is attached.
IdleBreakout ==
    /\ eaInputs = [name |-> "", MaxTrades |-> 0, UseMomentumFilter |-> FALSE]
    /\ Bid = 0
    /\ AccountBalance = 0
    /\ g_dailyBalance = 0
    /\ trades = {}
    /\ lastBar = [seq |-> 0, limit |-> FALSE, opened |-> 0]


(***************************************************************************)
(* Characters and strings                                                  *)
(***************************************************************************)

RECURSIVE Concat(_)
\* The concatenation of a sequence of strings.
Concat(parts) ==
    IF parts = <<>> THEN <<>> ELSE Head(parts) \o Concat(Tail(parts))

\* MQL4 StringLen / JS .length
StringLen(s) == Len(s)

\* MQL4 StringGetChar(s, pos), pos counted from 0
StringGetChar(s, pos) == s[pos + 1]

\* MQL4 StringSubstr(s, start, length), start counted from 0
StringSubstr(s, start, length) ==
    IF length <= 0 \/ start >= Len(s) THEN <<>>
    ELSE SubSeq(s, start + 1, IF start + length > Len(s) THEN Len(s) ELSE start + length)

\* Whether pattern occurs in s at position pos (from 0)
MatchAt(s, pattern, pos) ==
    /\ pos + Len(pattern) <= Len(s)
    /\ \A i \in 1..Len(pattern) : s[pos + i] = pattern[i]

\* MQL4 StringFind(s, pattern): the first position (from 0) of pattern, or -1
StringFind(s, pattern) ==
    LET hits == {p \in 0..Len(s) : MatchAt(s, pattern, p)}
    IN  IF hits = {} THEN -1 ELSE CHOOSE p \in hits : \A q \in hits : p <= q

(***************************************************************************)
(* MCPBridge.mq4: ExtractJsonValue                                         *)
(***************************************************************************)
RECURSIVE SkipQuotesAndSpaces(_, _)
\* while (startPos < StringLen(json) && (c == ' ' || c == '"')) startPos++
SkipQuotesAndSpaces(json, startPos) ==
    IF startPos < StringLen(json)
       /\ StringGetChar(json, startPos) \in {" ", "\""}
    THEN SkipQuotesAndSpaces(json, startPos + 1)
    ELSE startPos

RECURSIVE FindValueEnd(_, _, _)
\* The "find end of value" loop: the first quote seen sets inQuotes, the
\* second one ends the value; a comma or brace ends it only outside quotes.
FindValueEnd(json, endPos, inQuotes) ==
    IF endPos >= StringLen(json) THEN endPos
    ELSE LET c == StringGetChar(json, endPos)
         IN  IF c = "\"" /\ ~inQuotes THEN FindValueEnd(json, endPos + 1, TRUE)
             ELSE IF c = "\"" /\ inQuotes THEN endPos
             ELSE IF ~inQuotes /\ c \in {",", "}"} THEN endPos
             ELSE FindValueEnd(json, endPos + 1, inQuotes)

ExtractJsonValue(json, key) ==
    LET searchKey == <<"\"">> \o key \o <<"\"", ":">>
        found == StringFind(json, searchKey)
    IN  IF found = -1 THEN <<>>
        ELSE LET startPos == SkipQuotesAndSpaces(json, found + StringLen(searchKey))
                 endPos == FindValueEnd(json, startPos, FALSE)
             IN  StringSubstr(json, startPos, endPos - startPos)

(***************************************************************************)
(* JSON.stringify of a flat object (server.js builds every command file    *)
(* with it).  A member is [key, str, text]: str tells a string value from  *)
(* a number, text is the value's characters.  String values hold no quote, *)
(* backslash or control character, so no escape is ever produced.          *)
(***************************************************************************)
Member(key, str, text) == [key |-> key, str |-> str, text |-> text]

JsonStringifyMember(m) ==
    <<"\"">> \o m.key \o <<"\"", ":">>
    \o (IF m.str THEN <<"\"">> \o m.text \o <<"\"">> ELSE m.text)

RECURSIVE JsonStringifyMembers(_)
JsonStringifyMembers(ms) ==
    IF ms = <<>> THEN <<>>
    ELSE IF Len(ms) = 1 THEN JsonStringifyMember(ms[1])
    ELSE JsonStringifyMember(ms[1]) \o <<",">> \o JsonStringifyMembers(Tail(ms))

JsonStringify(ms) == <<"{">> \o JsonStringifyMembers(ms) \o <<"}">>

(***************************************************************************)
(* Harness for ExtractJsonValue: flat objects of up to MaxMembers members  *)
(* with distinct keys, in every order, and every key looked up.            *)
(***************************************************************************)
MaxMembers == 3


\* The members a flat object is drawn from: string values and plain numbers.
MemberPool ==
    {Member(<<"s","y","m","b","o","l">>, TRUE, <<"E","U","R","U","S","D">>), Member(<<"s","y","m","b","o","l">>, TRUE, <<"G","B","P","U","S","D">>),
     Member(<<"o","p","e","r","a","t","i","o","n">>, TRUE, <<"B","U","Y">>), Member(<<"o","p","e","r","a","t","i","o","n">>, TRUE, <<"S","E","L","L","_","S","T","O","P">>),
     Member(<<"l","o","t","s">>, FALSE, <<"0",".","1","0">>), Member(<<"l","o","t","s">>, FALSE, <<"1">>),
     Member(<<"t","i","c","k","e","t">>, FALSE, <<"7">>)}

\* The keys looked up: those of the pool and one no object holds.
LookupKeys == {<<"s","y","m","b","o","l">>, <<"o","p","e","r","a","t","i","o","n">>, <<"l","o","t","s">>, <<"t","i","c","k","e","t">>, <<"p","r","i","c","e">>}

DistinctKeys(ms) == \A i, j \in 1..Len(ms) : i # j => ms[i].key # ms[j].key

FlatObjects ==
    UNION {{ms \in [1..n -> MemberPool] : DistinctKeys(ms)} : n \in 1..MaxMembers}

IdleJson ==
    /\ jsonObj = <<>>
    /\ jsonKey = <<>>
    /\ jsonValue = <<>>
    /\ jsonPc = "off"

InitJson ==
    /\ jsonObj \in FlatObjects
    /\ jsonKey \in LookupKeys
    /\ jsonValue = <<>>
    /\ jsonPc = "ready"

\* The terminal hands the command text and a key to the scanner.
ExtractStep ==
    /\ jsonPc = "ready"
    /\ jsonValue' = ExtractJsonValue(JsonStringify(jsonObj), jsonKey)
    /\ jsonPc' = "done"
    /\ UNCHANGED <<jsonObj, jsonKey>>
    /\ UNCHANGED <<varsPositions, varsBridge, varsCompile, varsSync, varsTools, varsBreakout>>

\* The value text a lookup is meant to return: the member's text, or the
\* empty string for a key the object does not hold.
ValueOf(ms, key) ==
    IF \E i \in 1..Len(ms) : ms[i].key = key
    THEN (CHOOSE m \in {ms[i] : i \in 1..Len(ms)} : m.key = key).text
    ELSE <<>>

\* C1: for every flat object of string and number values and every key,
\* ExtractJsonValue returns exactly the value text of a present key (no
\* quote, no trailing delimiter), and the empty string for an absent key.
C1_ExtractReturnsValueText ==
    jsonPc = "done" => jsonValue = ValueOf(jsonObj, jsonKey)

(***************************************************************************)
(* Numbers.  A double of the terminal is held in units of 10^-Digits5      *)
(* (0.10 lots = 10000, price 1.08500 = 108500); the conversions to and     *)
(* from text are computed digit by digit.                                  *)
(***************************************************************************)
Digits5 == 5

Pow10(n) ==
    CASE n = 0 -> 1 [] n = 1 -> 10 [] n = 2 -> 100 [] n = 3 -> 1000
      [] n = 4 -> 10000 [] OTHER -> 100000

DigitChars == <<"0","1","2","3","4","5","6","7","8","9">>
IsDigit(c) == \E d \in 1..10 : DigitChars[d] = c
DigitValue(c) == (CHOOSE d \in 1..10 : DigitChars[d] = c) - 1

RECURSIVE NatToString(_)
NatToString(n) ==
    IF n < 10 THEN <<DigitChars[n + 1]>>
    ELSE NatToString(n \div 10) \o <<DigitChars[(n % 10) + 1]>>

\* MQL4 IntegerToString
IntegerToString(n) == IF n < 0 THEN <<"-">> \o NatToString(-n) ELSE NatToString(n)

RECURSIVE PadLeftZeros(_, _)
PadLeftZeros(s, width) ==
    IF Len(s) >= width THEN s ELSE PadLeftZeros(<<"0">> \o s, width)

\* MQL4 DoubleToString(value, digits) for a value >= 0 held in 10^-5 units:
\* rounded to `digits` decimals, always printed with `digits` decimals.
DoubleToString(units, digits) ==
    LET cut == Pow10(Digits5 - digits)
        y == (units + (cut \div 2)) \div cut
        ip == y \div Pow10(digits)
        fp == y % Pow10(digits)
    IN  IF digits = 0 THEN NatToString(ip)
        ELSE NatToString(ip) \o <<".">> \o PadLeftZeros(NatToString(fp), digits)

RECURSIVE ReadDigits(_, _, _)
\* The run of digits of s from position pos (from 0): [value, count, next]
ReadDigits(s, pos, acc) ==
    IF pos < Len(s) /\ IsDigit(s[pos + 1])
    THEN ReadDigits(s, pos + 1,
                    [value |-> acc.value * 10 + DigitValue(s[pos + 1]),
                     count |-> acc.count + 1, next |-> pos + 1])
    ELSE acc

\* MQL4 StringToInteger: the leading run of digits, 0 when there is none.
StringToInteger(s) ==
    ReadDigits(s, 0, [value |-> 0, count |-> 0, next |-> 0]).value

\* MQL4 StringToDouble: the leading  digits[.digits]  prefix, in 10^-5 units
\* (decimals beyond the fifth are dropped); 0 when there is none.
StringToDouble(s) ==
    LET ip == ReadDigits(s, 0, [value |-> 0, count |-> 0, next |-> 0])
        hasPoint == ip.next < Len(s) /\ s[ip.next + 1] = "."
        last == IF Len(s) > ip.next + 1 + Digits5 THEN ip.next + 1 + Digits5 ELSE Len(s)
        fp == IF hasPoint
              THEN ReadDigits(SubSeq(s, 1, last), ip.next + 1,
                              [value |-> 0, count |-> 0, next |-> ip.next + 1])
              ELSE [value |-> 0, count |-> 0, next |-> ip.next]
    IN  ip.value * Pow10(Digits5) + fp.value * Pow10(Digits5 - fp.count)

(***************************************************************************)
(* JavaScript string helpers used by the bridge's handlers                 *)
(***************************************************************************)
IsWhitespace(c) == c \in {" ", "\r", "\n", "\t"}

RECURSIVE TrimStart(_)
TrimStart(s) == IF s # <<>> /\ IsWhitespace(Head(s)) THEN TrimStart(Tail(s)) ELSE s

RECURSIVE TrimEnd(_)
TrimEnd(s) ==
    IF s # <<>> /\ IsWhitespace(s[Len(s)]) THEN TrimEnd(SubSeq(s, 1, Len(s) - 1)) ELSE s

\* String.prototype.trim
Trim(s) == TrimEnd(TrimStart(s))

RECURSIVE Split(_, _)
\* String.prototype.split(separator) for a non-empty separator string
Split(s, sep) ==
    LET at == StringFind(s, sep)
    IN  IF at = -1 THEN <<s>>
        ELSE <<SubSeq(s, 1, at)>> \o Split(SubSeq(s, at + Len(sep) + 1, Len(s)), sep)

\* String.prototype.includes
Includes(s, part) == StringFind(s, part) # -1

(***************************************************************************)
(* MCPBridge.mq4: WritePositionsInfo                                       *)
(***************************************************************************)
OP_BUY == 0
OP_SELL == 1
OP_BUYLIMIT == 2
OP_SELLLIMIT == 3
OP_BUYSTOP == 4
OP_SELLSTOP == 5

\* FileWrite of one string to a FILE_TXT file: the text and a CR LF.
FileWriteLine(text) == text \o <<"\r", "\n">>


\* An order of the trade pool.
Order(ticket, type, symbol, lots, openPrice) ==
    [ticket |-> ticket, type |-> type, symbol |-> symbol, lots |-> lots,
     openPrice |-> openPrice]

\* MarketInfo(symbol, MODE_BID) and MODE_ASK, in 10^-5 units.
BidPrice == 108500
AskPrice == 108520

\* The block WritePositionsInfo writes for one market order.
PositionBlock(o) ==
    Concat(<<
        FileWriteLine(<<"T","i","c","k","e","t","=">> \o IntegerToString(o.ticket)),
        FileWriteLine(<<"S","y","m","b","o","l","=">> \o o.symbol),
        FileWriteLine(<<"T","y","p","e","=">> \o (IF o.type = OP_BUY THEN <<"B","U","Y">> ELSE <<"S","E","L","L">>)),
        FileWriteLine(<<"L","o","t","s","=">> \o DoubleToString(o.lots, 2)),
        FileWriteLine(<<"O","p","e","n","P","r","i","c","e","=">> \o DoubleToString(o.openPrice, 5)),
        FileWriteLine(<<"C","u","r","r","e","n","t","P","r","i","c","e","=">>
                      \o DoubleToString(IF o.type = OP_BUY THEN BidPrice ELSE AskPrice, 5)),
        FileWriteLine(<<"S","t","o","p","L","o","s","s","=">> \o DoubleToString(0, 5)),
        FileWriteLine(<<"T","a","k","e","P","r","o","f","i","t","=">> \o DoubleToString(0, 5)),
        FileWriteLine(<<"P","r","o","f","i","t","=">> \o DoubleToString(0, 2)),
        FileWriteLine(<<"O","p","e","n","T","i","m","e","=">> \o <<"2","0","2","4",".","0","1",".","0","2"," ","0","3",":","0","4">>),
        FileWriteLine(<<"C","o","m","m","e","n","t","=">>),
        FileWriteLine(<<"-","-","-">>) >>)

RECURSIVE PositionBlocks(_)
\* The loop over the pool: only market orders (OrderType() <= 1) are written.
PositionBlocks(pool) ==
    IF pool = <<>> THEN <<>>
    ELSE (IF Head(pool).type <= OP_SELL THEN PositionBlock(Head(pool)) ELSE <<>>)
         \o PositionBlocks(Tail(pool))

\* The text of positions.txt for a trade pool.
WritePositionsInfo(pool) ==
    FileWriteLine(<<"T","o","t","a","l","P","o","s","i","t","i","o","n","s","=">> \o IntegerToString(Len(pool)))
    \o FileWriteLine(<<>>)
    \o PositionBlocks(pool)

(***************************************************************************)
(* server.js: GET /api/positions                                           *)
(***************************************************************************)
NoFile == [exists |-> FALSE, text |-> <<>>]
FileOf(text) == [exists |-> TRUE, text |-> text]
NoResponse == [status |-> 0]

\* The separator the handler splits the file on: the source text '\\n' is a
\* backslash followed by the letter n.
LineSeparator == <<"\\", "n">>

\* obj[key] = value on a JavaScript object (an object is a function from
\* keys to values; <<>> is the empty object).
AssignKey(obj, key, value) ==
    [k \in (DOMAIN obj) \cup {key} |-> IF k = key THEN value ELSE obj[k]]

\* One turn of the handler's loop over the lines; acc is
\* [positions, currentPosition].
PositionsLine(acc, line) ==
    IF line = <<"-","-","-">>
    THEN IF DOMAIN acc.currentPosition # {}
         THEN [positions |-> Append(acc.positions, acc.currentPosition),
               currentPosition |-> <<>>]
         ELSE acc
    ELSE IF Includes(line, <<"=">>)
    THEN LET parts == Split(line, <<"=">>)
             key == parts[1]
             value == parts[2]
         IN  IF key # <<>> /\ value # <<>>
             THEN [acc EXCEPT !.currentPosition = AssignKey(@, Trim(key), Trim(value))]
             ELSE acc
    ELSE acc

RECURSIVE PositionsLoop(_, _)
PositionsLoop(acc, lines) ==
    IF lines = <<>> THEN acc
    ELSE PositionsLoop(PositionsLine(acc, Head(lines)), Tail(lines))

\* The body of the handler once the file was read: split, loop, flush.
ParsePositions(content) ==
    LET lines == Split(content, LineSeparator)
        acc == PositionsLoop([positions |-> <<>>, currentPosition |-> <<>>], lines)
    IN  IF DOMAIN acc.currentPosition # {}
        THEN Append(acc.positions, acc.currentPosition)
        ELSE acc.positions

\* The handler: readMT4File (content.trim()), parse, or status 500.
GetPositionsHandler(file) ==
    IF file.exists
    THEN [status |-> 200, positions |-> ParsePositions(Trim(file.text))]
    ELSE [status |-> 500]

(***************************************************************************)
(* The positions snapshot as a state machine: orders are opened in the     *)
(* terminal, the Expert Advisor rewrites positions.txt on its tick, the    *)
(* bridge answers GET /api/positions from the file (one terminal folder).  *)
(***************************************************************************)
MaxOrders == 3

IdlePositions ==
    /\ orderPool = <<>>
    /\ positionsTxt = NoFile
    /\ positionsResp = NoResponse
    /\ historyTxt = [d \in {7, 30} |-> NoFile]
    /\ historyResp = NoResponse

InitPositions == IdlePositions

\* An order enters the trade pool: a market order or a pending one.
OrderOpens(type) ==
    /\ Len(orderPool) < MaxOrders
    /\ orderPool' = Append(orderPool,
                           Order(Len(orderPool) + 1, type, <<"E","U","R","U","S","D">>, 10000, AskPrice))
    /\ UNCHANGED <<positionsTxt, positionsResp, historyTxt, historyResp>>
    /\ UNCHANGED <<varsJson, varsBridge, varsCompile, varsSync, varsTools, varsBreakout>>

\* OnInit / OnTick: WritePositionsInfo() rewrites the snapshot.
TickWritesPositions ==
    /\ positionsTxt' = FileOf(WritePositionsInfo(orderPool))
    /\ positionsTxt' # positionsTxt
    /\ UNCHANGED <<orderPool, positionsResp, historyTxt, historyResp>>
    /\ UNCHANGED <<varsJson, varsBridge, varsCompile, varsSync, varsTools, varsBreakout>>

\* GET /api/positions
GetPositions ==
    /\ positionsResp' = GetPositionsHandler(positionsTxt)
    /\ positionsResp' # positionsResp
    /\ UNCHANGED <<orderPool, positionsTxt, historyTxt, historyResp>>
    /\ UNCHANGED <<varsJson, varsBridge, varsCompile, varsSync, varsTools, varsBreakout>>

\* GET /api/history?days=<days>: readMT4File of history_<days>d.txt, the
\* same block parser as GET /api/positions, or status 500 when the read
\* throws.  No function of the expert writes a history file, so no action
\* changes historyTxt.
GetHistory(days) ==
    /\ historyResp' =
          IF historyTxt[days].exists
          THEN [status |-> 200, days |-> days,
                history |-> ParsePositions(Trim(historyTxt[days].text))]
          ELSE [status |-> 500, days |-> days]
    /\ UNCHANGED <<orderPool, positionsTxt, positionsResp, historyTxt>>
    /\ UNCHANGED <<varsJson, varsBridge, varsCompile, varsSync, varsTools, varsBreakout>>

\* The decoding the file format calls for, computed from the file on its real
\* line ends: the lines between two '---' lines form a block, and a block is
\* non-empty when one of its lines is a key=value pair.
BlockCount(acc, line) ==
    IF line = <<"-","-","-">>
    THEN [blocks |-> acc.blocks + (IF acc.pairs > 0 THEN 1 ELSE 0), pairs |-> 0]
    ELSE IF Includes(line, <<"=">>) THEN [acc EXCEPT !.pairs = @ + 1]
    ELSE acc

RECURSIVE BlockCountLoop(_, _)
BlockCountLoop(acc, lines) ==
    IF lines = <<>> THEN acc.blocks + (IF acc.pairs > 0 THEN 1 ELSE 0)
    ELSE BlockCountLoop(BlockCount(acc, Head(lines)), Tail(lines))

NonEmptyBlocks(text) ==
    BlockCountLoop([blocks |-> 0, pairs |-> 0], Split(Trim(text), <<"\r", "\n">>))

\* C4: the number of records GET /api/positions returns equals the number
\* of non-empty '---'-separated blocks of positions.txt (three blocks give
\* three records).
C4_OneRecordPerBlock ==
    positionsResp.status = 200 /\ positionsTxt.exists
    /\ positionsResp = GetPositionsHandler(positionsTxt)
        => Len(positionsResp.positions) = NonEmptyBlocks(positionsTxt.text)

(***************************************************************************)
(* JSON.parse of a flat object (the bridge parses every result file with   *)
(* it).  A parsed value is [t, text, num]: a string holds its characters,  *)
(* a number its value in 10^-5 units, a boolean 1 or 0.                    *)
(***************************************************************************)
JsonString(text) == [t |-> "string", text |-> text, num |-> 0]
JsonNumber(units) == [t |-> "number", text |-> <<>>, num |-> units]
JsonBoolean(b) == [t |-> "boolean", text |-> <<>>, num |-> IF b THEN 1 ELSE 0]
ParseFailure == [ok |-> FALSE, value |-> <<>>, next |-> 0]

RECURSIVE SkipWhitespace(_, _)
SkipWhitespace(s, pos) ==
    IF pos < Len(s) /\ IsWhitespace(s[pos + 1]) THEN SkipWhitespace(s, pos + 1) ELSE pos

RECURSIVE StringEnd(_, _)
\* The position of the quote closing a string whose content starts at pos;
\* -1 when the text ends or a control character comes first.
StringEnd(s, pos) ==
    IF pos >= Len(s) \/ s[pos + 1] \in {"\r", "\n", "\t"} THEN -1
    ELSE IF s[pos + 1] = "\"" THEN pos
    ELSE IF s[pos + 1] = "\\" THEN StringEnd(s, pos + 2)
    ELSE StringEnd(s, pos + 1)

ParseJsonString(s, pos) ==
    IF pos < Len(s) /\ s[pos + 1] = "\""
    THEN LET end == StringEnd(s, pos + 1)
         IN  IF end = -1 THEN ParseFailure
             ELSE [ok |-> TRUE, value |-> JsonString(SubSeq(s, pos + 2, end)),
                   next |-> end + 1]
    ELSE ParseFailure

ParseJsonScalar(s, pos) ==
    IF pos >= Len(s) THEN ParseFailure
    ELSE IF s[pos + 1] = "\"" THEN ParseJsonString(s, pos)
    ELSE IF MatchAt(s, <<"t","r","u","e">>, pos)
    THEN [ok |-> TRUE, value |-> JsonBoolean(TRUE), next |-> pos + 4]
    ELSE IF MatchAt(s, <<"f","a","l","s","e">>, pos)
    THEN [ok |-> TRUE, value |-> JsonBoolean(FALSE), next |-> pos + 5]
    ELSE IF IsDigit(s[pos + 1])
    THEN LET zero == [value |-> 0, count |-> 0, next |-> pos]
             ip == ReadDigits(s, pos, zero)
             fp == IF ip.next < Len(s) /\ s[ip.next + 1] = "."
                   THEN ReadDigits(s, ip.next + 1, [zero EXCEPT !.next = ip.next + 1])
                   ELSE [zero EXCEPT !.next = ip.next, !.count = 1]
         IN  IF fp.count = 0 THEN ParseFailure
             ELSE [ok |-> TRUE,
                   value |-> JsonNumber(StringToDouble(SubSeq(s, pos + 1, fp.next))),
                   next |-> fp.next]
    ELSE ParseFailure

RECURSIVE ParseJsonMembers(_, _, _)
\* The members of an object from pos (the first character of a key) on.
ParseJsonMembers(s, pos, obj) ==
    LET key == ParseJsonString(s, pos)
        colon == SkipWhitespace(s, key.next)
        val == ParseJsonScalar(s, SkipWhitespace(s, colon + 1))
        after == SkipWhitespace(s, val.next)
    IN  IF ~key.ok \/ colon >= Len(s) \/ s[colon + 1] # ":" THEN ParseFailure
        ELSE IF ~val.ok \/ after >= Len(s) THEN ParseFailure
        ELSE IF s[after + 1] = ","
        THEN ParseJsonMembers(s, SkipWhitespace(s, after + 1),
                              AssignKey(obj, key.value.text, val.value))
        ELSE IF s[after + 1] = "}"
        THEN [ok |-> TRUE, value |-> AssignKey(obj, key.value.text, val.value),
              next |-> after + 1]
        ELSE ParseFailure

\* JSON.parse(text): [ok, value]; ok = FALSE stands for the SyntaxError thrown.
JsonParse(s) ==
    LET open == SkipWhitespace(s, 0)
        first == SkipWhitespace(s, open + 1)
        body == IF first < Len(s) /\ s[first + 1] = "}"
                THEN [ok |-> TRUE, value |-> <<>>, next |-> first + 1]
                ELSE ParseJsonMembers(s, first, <<>>)
    IN  IF open >= Len(s) \/ s[open + 1] # "{" THEN [ok |-> FALSE, value |-> <<>>]
        ELSE IF body.ok /\ SkipWhitespace(s, body.next) = Len(s)
        THEN [ok |-> TRUE, value |-> body.value]
        ELSE [ok |-> FALSE, value |-> <<>>]

(***************************************************************************)
(* MCPBridge.mq4: ExecuteOrderCommand and ExecuteCloseCommand              *)
(***************************************************************************)
\* GetLastError() after a refused OrderSend / OrderClose (ERR_NOT_ENOUGH_MONEY
\* and ERR_REQUOTE: one possible code each).
OrderSendError == 134
OrderCloseError == 138

\* The result file text: one FileWrite per line.
RECURSIVE ResultLines(_)
ResultLines(lines) ==
    IF lines = <<>> THEN <<>> ELSE FileWriteLine(Head(lines)) \o ResultLines(Tail(lines))

\* A chain that ends in a plain else: anything unknown is a market buy.
OrderTypeOrBuy(operation) ==
    CASE operation = <<"S","E","L","L">> -> OP_SELL
      [] operation = <<"B","U","Y","_","L","I","M","I","T">> -> OP_BUYLIMIT
      [] operation = <<"S","E","L","L","_","L","I","M","I","T">> -> OP_SELLLIMIT
      [] operation = <<"B","U","Y","_","S","T","O","P">> -> OP_BUYSTOP
      [] operation = <<"S","E","L","L","_","S","T","O","P">> -> OP_SELLSTOP
      [] OTHER -> OP_BUY

\* The if / else-if chain on operation: the order type, -1 when none matches.
OrderTypeOf(operation) ==
    CASE operation = <<"B","U","Y">> -> OP_BUY
      [] operation = <<"S","E","L","L">> -> OP_SELL
      [] operation = <<"B","U","Y","_","L","I","M","I","T">> -> OP_BUYLIMIT
      [] operation = <<"S","E","L","L","_","L","I","M","I","T">> -> OP_SELLLIMIT
      [] operation = <<"B","U","Y","_","S","T","O","P">> -> OP_BUYSTOP
      [] operation = <<"S","E","L","L","_","S","T","O","P">> -> OP_SELLSTOP
      [] OTHER -> -1

\* ExecuteOrderCommand(jsonCommand).  accept and ticket are the broker's
\* answer to OrderSend, consulted only when OrderSend is called.  Returns
\* [sent, opened, order, text]: whether OrderSend was called, whether it
\* opened an order, the order, and the text written to order_result.txt.
ExecuteOrderCommand(jsonCommand, accept, ticket) ==
    LET symbol == ExtractJsonValue(jsonCommand, <<"s","y","m","b","o","l">>)
        operation == ExtractJsonValue(jsonCommand, <<"o","p","e","r","a","t","i","o","n">>)
        lots == StringToDouble(ExtractJsonValue(jsonCommand, <<"l","o","t","s">>))
        cmdPrice == StringToDouble(ExtractJsonValue(jsonCommand, <<"p","r","i","c","e">>))
        orderType == OrderTypeOf(operation)
        price == IF orderType = OP_BUY THEN AskPrice
                 ELSE IF orderType = OP_SELL THEN BidPrice ELSE cmdPrice
    IN  IF orderType >= 0
        THEN IF accept
             THEN [sent |-> TRUE, opened |-> TRUE,
                   order |-> Order(ticket, orderType, symbol, lots, price),
                   text |-> ResultLines(<<
                       <<"{">>,
                       <<"\"","s","u","c","c","e","s","s","\"",":"," ","t","r","u","e",",">>,
                       <<"\"","t","i","c","k","e","t","\"",":"," ">> \o IntegerToString(ticket) \o <<",">>,
                       <<"\"","s","y","m","b","o","l","\"",":"," ","\"">> \o symbol \o <<"\"",",">>,
                       <<"\"","o","p","e","r","a","t","i","o","n","\"",":"," ","\"">> \o operation \o <<"\"",",">>,
                       <<"\"","l","o","t","s","\"",":"," ">> \o DoubleToString(lots, 2) \o <<",">>,
                       <<"\"","p","r","i","c","e","\"",":"," ">> \o DoubleToString(price, 5),
                       <<"}">> >>)]
             ELSE [sent |-> TRUE, opened |-> FALSE,
                   order |-> Order(0, orderType, symbol, lots, price),
                   text |-> ResultLines(<<
                       <<"{">>,
                       <<"\"","s","u","c","c","e","s","s","\"",":"," ","f","a","l","s","e",",">>,
                       <<"\"","e","r","r","o","r","\"",":"," ">> \o IntegerToString(OrderSendError) \o <<",">>,
                       <<"\"","d","e","s","c","r","i","p","t","i","o","n","\"",":"," ","\"","O","r","d","e","r"," ","f","a","i","l","e","d","\"">>,
                       <<"}">> >>)]
        ELSE [sent |-> FALSE, opened |-> FALSE,
              order |-> Order(0, orderType, symbol, lots, price),
              text |-> ResultLines(<<
                  <<"{">>,
                  <<"\"","s","u","c","c","e","s","s","\"",":"," ","f","a","l","s","e",",">>,
                  <<"\"","e","r","r","o","r","\"",":"," ","\"","I","n","v","a","l","i","d"," ","o","p","e","r","a","t","i","o","n"," ","t","y","p","e","\"",",">>,
                  <<"\"","o","p","e","r","a","t","i","o","n","\"",":"," ","\"">> \o operation \o <<"\"">>,
                  <<"}">> >>)]

\* ExecuteCloseCommand(jsonCommand).  known are the tickets OrderSelect
\* finds, open those still open; accept is the broker's answer to
\* OrderClose.  Returns [ticket, closed, text].
ExecuteCloseCommand(jsonCommand, known, open, accept) ==
    LET ticket == StringToInteger(ExtractJsonValue(jsonCommand, <<"t","i","c","k","e","t">>))
        ticketLine == <<"\"","t","i","c","k","e","t","\"",":"," ">> \o IntegerToString(ticket) \o <<",">>
    IN  IF ticket \in known
        THEN IF ticket \in open /\ accept
             THEN [ticket |-> ticket, closed |-> TRUE,
                   text |-> ResultLines(<<
                       <<"{">>,
                       <<"\"","s","u","c","c","e","s","s","\"",":"," ","t","r","u","e",",">>,
                       ticketLine,
                       <<"\"","c","l","o","s","e","_","p","r","i","c","e","\"",":"," ">> \o DoubleToString(BidPrice, 5),
                       <<"}">> >>)]
             ELSE [ticket |-> ticket, closed |-> FALSE,
                   text |-> ResultLines(<<
                       <<"{">>,
                       <<"\"","s","u","c","c","e","s","s","\"",":"," ","f","a","l","s","e",",">>,
                       ticketLine,
                       <<"\"","e","r","r","o","r","\"",":"," ">> \o IntegerToString(OrderCloseError) \o <<",">>,
                       <<"\"","d","e","s","c","r","i","p","t","i","o","n","\"",":"," ","\"","F","a","i","l","e","d"," ","t","o"," ","c","l","o","s","e"," ","p","o","s","i","t","i","o","n","\"">>,
                       <<"}">> >>)]
        ELSE [ticket |-> ticket, closed |-> FALSE,
              text |-> ResultLines(<<
                  <<"{">>,
                  <<"\"","s","u","c","c","e","s","s","\"",":"," ","f","a","l","s","e",",">>,
                  ticketLine,
                  <<"\"","e","r","r","o","r","\"",":"," ","\"","O","r","d","e","r"," ","n","o","t"," ","f","o","u","n","d","\"">>,
                  <<"}">> >>)]

\* ExecuteBacktestCommand(jsonCommand): the text written to
\* backtest_results.txt (no backtest is run).
ExecuteBacktestCommand(jsonCommand) ==
    LET expert == ExtractJsonValue(jsonCommand, <<"e","x","p","e","r","t">>)
        symbol == ExtractJsonValue(jsonCommand, <<"s","y","m","b","o","l">>)
        timeframe == ExtractJsonValue(jsonCommand, <<"t","i","m","e","f","r","a","m","e">>)
        fromDate == ExtractJsonValue(jsonCommand, <<"f","r","o","m","_","d","a","t","e">>)
        toDate == ExtractJsonValue(jsonCommand, <<"t","o","_","d","a","t","e">>)
        initialDeposit == StringToDouble(ExtractJsonValue(jsonCommand, <<"i","n","i","t","i","a","l","_","d","e","p","o","s","i","t">>))
        model == ExtractJsonValue(jsonCommand, <<"m","o","d","e","l">>)
    IN  ResultLines(<<
            <<"{">>,
            <<"\"","s","t","a","t","u","s","\"",":"," ","\"","s","i","m","u","l","a","t","e","d","\"",",">>,
            <<"\"","m","e","s","s","a","g","e","\"",":"," ","\"","B","a","c","k","t","e","s","t"," ","s","i","m","u","l","a","t","i","o","n"," ","-"," ","M","T","4"," ","r","e","q","u","i","r","e","s"," ","m","a","n","u","a","l"," ","b","a","c","k","t","e","s","t","i","n","g","\"",",">>,
            <<"\"","e","x","p","e","r","t","\"",":"," ","\"">> \o expert \o <<"\"",",">>,
            <<"\"","s","y","m","b","o","l","\"",":"," ","\"">> \o symbol \o <<"\"",",">>,
            <<"\"","t","i","m","e","f","r","a","m","e","\"",":"," ","\"">> \o timeframe \o <<"\"",",">>,
            <<"\"","p","e","r","i","o","d","\"",":"," ","\"">> \o fromDate \o <<" ","t","o"," ">> \o toDate \o <<"\"",",">>,
            <<"\"","i","n","i","t","i","a","l","_","d","e","p","o","s","i","t","\"",":"," ">> \o DoubleToString(initialDeposit, 2) \o <<",">>,
            <<"\"","m","o","d","e","l","\"",":"," ","\"">> \o model \o <<"\"",",">>,
            <<"\"","i","n","s","t","r","u","c","t","i","o","n","s","\"",":"," ","[">>,
            <<"\"","1","."," ","O","p","e","n"," ","M","T","4"," ","S","t","r","a","t","e","g","y"," ","T","e","s","t","e","r"," ","(","C","t","r","l","+","R",")","\"",",">>,
            <<"\"","2","."," ","S","e","l","e","c","t"," ","E","x","p","e","r","t",":"," ">> \o expert \o <<"\"",",">>,
            <<"\"","3","."," ","S","e","l","e","c","t"," ","S","y","m","b","o","l",":"," ">> \o symbol \o <<"\"",",">>,
            <<"\"","4","."," ","S","e","l","e","c","t"," ","T","i","m","e","f","r","a","m","e",":"," ">> \o timeframe \o <<"\"",",">>,
            <<"\"","5","."," ","S","e","t"," ","P","e","r","i","o","d",":"," ">> \o fromDate \o <<" ","-"," ">> \o toDate \o <<"\"",",">>,
            <<"\"","6","."," ","S","e","t"," ","I","n","i","t","i","a","l"," ","D","e","p","o","s","i","t",":"," ">> \o DoubleToString(initialDeposit, 2) \o <<"\"",",">>,
            <<"\"","7","."," ","S","e","l","e","c","t"," ","M","o","d","e","l",":"," ">> \o model \o <<"\"",",">>,
            <<"\"","8","."," ","C","l","i","c","k"," ","S","t","a","r","t"," ","t","o"," ","r","u","n"," ","b","a","c","k","t","e","s","t","\"">>,
            <<"]">>,
            <<"}">> >>)

(***************************************************************************)
(* The bridge's command / result files (server.js, enhanced bridge)        *)
(***************************************************************************)
\* Bounds of the protocol model.
MaxRequests == 2

FolderIds == {1, 2}
Kinds == {"order", "close", "backtest"}
CommandFile(kind) ==
    CASE kind = "order" -> "order_commands.txt"
      [] kind = "close" -> "close_commands.txt"
      [] kind = "backtest" -> "backtest_commands.txt"
ResultFile(kind) ==
    CASE kind = "order" -> "order_result.txt"
      [] kind = "close" -> "close_result.txt"
      [] kind = "backtest" -> "backtest_results.txt"
FileNames == {CommandFile(k) : k \in Kinds} \cup {ResultFile(k) : k \in Kinds}

\* A file that does not exist; id names the request whose command the text
\* belongs to (history, not program state).
Absent == [exists |-> FALSE, id |-> 0, text |-> <<>>]

\* fs.readdir order: the lowest-numbered folder of a set, 0 when it is empty.
FirstFolder(S) == IF S = {} THEN 0 ELSE CHOOSE f \in S : \A g \in S : f <= g

\* writeMT4File: the first folder with a 32-character name in which mkdir and
\* writeFile succeed; 0 when the loop ends and the function throws.  A folder
\* is "terminal" (32-character name, MQL4/Files exists), "bare" (32-character
\* name without MQL4/Files, as the data folder of a MetaTrader 5 terminal) or
\* "other"; mkdir with recursive: true creates MQL4/Files in a bare folder.
\* failing is the set of folders in which mkdir or writeFile throws during
\* this call (the file is held open by another process, the folder is
\* read-only): the inner catch moves on to the next folder and leaves a
\* failing folder as it was.
writeMT4File(failing) ==
    FirstFolder({f \in FolderIds : folderTypes[f] \in {"terminal", "bare"} /\ f \notin failing})

\* readMT4File(filename): the first folder with a 32-character name in which
\* readFile succeeds; 0 when the loop ends and the function throws.
readMT4File(filename) ==
    FirstFolder({f \in FolderIds : folderTypes[f] = "terminal" /\ files[f][filename].exists})

\* A write that leaves an existing file as it is (flag 'wx').
WriteIfAbsent(old, new) == IF old.exists THEN old ELSE new

\* fs.writeFile over what the path held before.
WriteFileContent(old, new) == new

\* The request bodies the MCP server posts (index.ts placeOrder,
\* closePosition, runBacktest), as JSON members.
Operations ==
    {<<"B","U","Y">>, <<"S","E","L","L">>, <<"B","U","Y","_","L","I","M","I","T">>, <<"S","E","L","L","_","L","I","M","I","T">>, <<"B","U","Y","_","S","T","O","P">>, <<"S","E","L","L","_","S","T","O","P">>}
OrderBody(operation) ==
    <<Member(<<"s","y","m","b","o","l">>, TRUE, <<"E","U","R","U","S","D">>),
      Member(<<"o","p","e","r","a","t","i","o","n">>, TRUE, operation),
      Member(<<"l","o","t","s">>, FALSE, <<"0",".","1">>),
      Member(<<"p","r","i","c","e">>, FALSE, IF operation \in {<<"B","U","Y">>, <<"S","E","L","L">>} THEN <<"0">> ELSE <<"1",".","0","8","5">>),
      Member(<<"s","t","o","p","_","l","o","s","s">>, FALSE, <<"0">>),
      Member(<<"t","a","k","e","_","p","r","o","f","i","t">>, FALSE, <<"0">>),
      Member(<<"c","o","m","m","e","n","t">>, TRUE, <<"M","C","P"," ","O","r","d","e","r">>)>>
Bodies(kind) ==
    CASE kind = "order" -> {OrderBody(op) : op \in Operations}
      [] kind = "close" ->
            {<<Member(<<"t","i","c","k","e","t">>, FALSE, IntegerToString(t))>> : t \in {1, 2}}
      [] kind = "backtest" ->
            {<<Member(<<"e","x","p","e","r","t">>, TRUE, <<"M","A">>),
             Member(<<"s","y","m","b","o","l">>, TRUE, <<"E","U","R","U","S","D">>),
             Member(<<"t","i","m","e","f","r","a","m","e">>, TRUE, <<"H","1">>),
             Member(<<"f","r","o","m","_","d","a","t","e">>, TRUE, <<"2","0","2","4",".","0","1",".","0","1">>),
             Member(<<"t","o","_","d","a","t","e">>, TRUE, <<"2","0","2","4",".","0","2",".","0","1">>),
             Member(<<"i","n","i","t","i","a","l","_","d","e","p","o","s","i","t">>, FALSE, <<"1","0","0","0","0">>),
             Member(<<"m","o","d","e","l">>, TRUE, <<"E","v","e","r","y"," ","t","i","c","k">>),
             Member(<<"o","p","t","i","m","i","z","a","t","i","o","n">>, FALSE, <<"f","a","l","s","e">>)>>}

\* JSON.stringify of the command object the handler builds; now is Date.now().
CommandText(kind, body, now) ==
    JsonStringify(
        <<Member(<<"a","c","t","i","o","n">>, TRUE,
                 CASE kind = "order" -> <<"P","L","A","C","E","_","O","R","D","E","R">>
                   [] kind = "close" -> <<"C","L","O","S","E","_","P","O","S","I","T","I","O","N">>
                   [] kind = "backtest" -> <<"R","U","N","_","B","A","C","K","T","E","S","T">>)>>
        \o body
        \o <<Member(<<"t","i","m","e","s","t","a","m","p">>, FALSE, IntegerToString(now))>>)

\* The handler's answers.
CommandSent(kind) ==
    [status |-> 200, success |-> TRUE, hasResult |-> FALSE, result |-> <<>>,
     message |-> CASE kind = "order" -> "Order command sent to MT4"
                   [] kind = "close" -> "Close command sent to MT4"
                   [] kind = "backtest" -> "Backtest command sent to MT4"]
ServerError(message) == [status |-> 500, error |-> message]

\* A handler without the inner try / catch: a missing result file is a 500.
ResultOrError(kind, folder) ==
    IF folder = 0
    THEN ServerError("File not found in any terminal folder")
    ELSE LET parsed == JsonParse(Trim(files[folder][ResultFile(kind)].text))
         IN  IF parsed.ok
             THEN [status |-> 200, success |-> TRUE, hasResult |-> TRUE,
                   result |-> parsed.value, message |-> ""]
             ELSE CommandSent(kind)

\* The inner try / catch of POST /api/order and POST /api/close after the
\* delay: folder is where readMT4File found the result file (0: it threw).
ResultResponse(kind, folder) ==
    IF folder = 0
    THEN CommandSent(kind)
    ELSE LET parsed == JsonParse(Trim(files[folder][ResultFile(kind)].text))
         IN  IF parsed.ok
             THEN [status |-> 200, success |-> TRUE, hasResult |-> TRUE,
                   result |-> parsed.value, message |-> ""]
             ELSE CommandSent(kind)

(***************************************************************************)
(* The protocol: HTTP handlers of the bridge, OnTick of the expert         *)
(***************************************************************************)
IdleBridge ==
    /\ folderTypes = [f \in FolderIds |-> "other"]
    /\ eaFolder = 0
    /\ files = [f \in FolderIds |-> [n \in FileNames |-> Absent]]
    /\ reqs = <<>>
    /\ tpc = [kind |-> "order", stage |-> "check"]
    /\ tbuf = Absent
    /\ openTickets = {}
    /\ closedTickets = {}
    /\ executed = [i \in 1..MaxRequests |-> 0]
    /\ overwritten = {}
    /\ deletedUnread = {}
    /\ accepted = {}

\* After start-up: any layout of the Terminal directory, the expert attached
\* in one of the terminals (in none when there is none), no command or result
\* file yet, one open position with ticket 1.
InitBridge ==
    /\ folderTypes \in [FolderIds -> {"terminal", "bare", "other"}]
    /\ eaFolder \in IF \E f \in FolderIds : folderTypes[f] = "terminal"
                    THEN {f \in FolderIds : folderTypes[f] = "terminal"}
                    ELSE {0}
    /\ files = [f \in FolderIds |-> [n \in FileNames |-> Absent]]
    /\ reqs = <<>>
    /\ tpc = [kind |-> "order", stage |-> "check"]
    /\ tbuf = Absent
    /\ openTickets = {1}
    /\ closedTickets = {}
    /\ executed = [i \in 1..MaxRequests |-> 0]
    /\ overwritten = {}
    /\ deletedUnread = {}
    /\ accepted = {}

\* Whether the expert holds the text of the command file in folder f that
\* carries id: it has read the file and not yet deleted it.
HeldByExpert(kind, f, id) ==
    eaFolder = f /\ tpc = [kind |-> kind, stage |-> "read"] /\ tbuf.id = id

\* A handler that answers "command sent" whatever the write did.
AnswerWithoutLooking(kind, f) ==
    IF kind = "backtest" \/ f = 0
    THEN [pc |-> "done", resp |-> CommandSent(kind)]
    ELSE [pc |-> "wait", resp |-> NoResponse]

\* A handler that carries on after a failed write, to look for a result later.
WaitAfterFailedWrite(kind, f) ==
    IF kind = "backtest" /\ f # 0
    THEN [pc |-> "done", resp |-> CommandSent(kind)]
    ELSE [pc |-> "wait", resp |-> NoResponse]

\* Where a handler stands once writeMT4File has returned folder f or thrown
\* (f = 0): the outer catch answers 500; /api/backtest answers at once; the
\* others start the 1000 ms timer and answer later.
AfterWrite(kind, f) ==
    IF f = 0
    THEN [pc |-> "done",
          resp |-> ServerError(
              CASE kind = "order" ->
                     "Failed to write MT4 file order_commands.txt: No writable terminal folder found"
                [] kind = "close" ->
                     "Failed to write MT4 file close_commands.txt: No writable terminal folder found"
                [] kind = "backtest" ->
                     "Failed to write MT4 file backtest_commands.txt: No writable terminal folder found")]
    ELSE IF kind = "backtest"
    THEN [pc |-> "done", resp |-> CommandSent(kind)]
    ELSE [pc |-> "wait", resp |-> NoResponse]

\* POST /api/order, /api/close, /api/backtest up to the first await that
\* yields: build the command, writeMT4File.  A failed write is answered with
\* 500; /api/backtest answers as soon as the write is done.  The request's id
\* is its arrival number, which also serves as Date.now().  The environment
\* chooses the folders in which this call's write fails.
PostCommand(kind, body) ==
    /\ Len(reqs) < MaxRequests
    /\ \E failing \in SUBSET FolderIds :
       LET id == Len(reqs) + 1
           f == writeMT4File(failing)
           name == CommandFile(kind)
           req == [kind |-> kind, body |-> body, wrote |-> f, seen |-> 0]
       IN  IF f = 0
           THEN /\ reqs' = Append(reqs, req @@ AfterWrite(kind, f))
                /\ UNCHANGED <<folderTypes, files, overwritten>>
           ELSE /\ folderTypes' = [folderTypes EXCEPT ![f] = "terminal"]
                /\ files' = [files EXCEPT ![f][name] =
                                WriteFileContent(@, [exists |-> TRUE, id |-> id,
                                                     text |-> CommandText(kind, body, id)])]
                /\ overwritten' =
                       IF files[f][name].exists /\ ~HeldByExpert(kind, f, files[f][name].id)
                       THEN overwritten \cup {files[f][name].id}
                       ELSE overwritten
                /\ reqs' = Append(reqs, req @@ AfterWrite(kind, f))
    /\ UNCHANGED <<eaFolder, tpc, tbuf, openTickets, closedTickets,
                   executed, deletedUnread, accepted>>
    /\ UNCHANGED <<varsJson, varsPositions, varsCompile, varsSync, varsTools, varsBreakout>>

\* The rest of POST /api/order and /api/close, when the one-second timer has
\* fired: readMT4File of the result file, JSON.parse, the answer.
ReadResult(r) ==
    /\ r \in 1..Len(reqs)
    /\ reqs[r].pc = "wait"
    /\ LET kind == reqs[r].kind
           f == readMT4File(ResultFile(kind))
       IN  reqs' = [reqs EXCEPT ![r].pc = "done",
                                ![r].resp = ResultResponse(kind, f),
                                ![r].seen = IF f = 0 THEN 0 ELSE files[f][ResultFile(kind)].id]
    /\ UNCHANGED <<folderTypes, eaFolder, files, tpc, tbuf, openTickets, closedTickets,
                   executed, overwritten, deletedUnread, accepted>>
    /\ UNCHANGED <<varsJson, varsPositions, varsCompile, varsSync, varsTools, varsBreakout>>

\* A FileDelete that fails: the file stays.
FileDeleteFails(file) == file

\* FileDelete of a command file (its return value is not looked at).
FileDelete(file) == Absent

\* OnTick calls ProcessOrderCommands, ProcessCloseCommands and
\* ProcessBacktestCommands in this order, tick after tick.
NextKind(kind) ==
    CASE kind = "order" -> "close"
      [] kind = "close" -> "backtest"
      [] kind = "backtest" -> "order"

\* The ticket OrderSend gives a new order.
NewTicket == 1 + Cardinality(openTickets \cup closedTickets)

\* Process*Commands for one kind of command, in the steps another process
\* can fall between: FileIsExist fails; or the file is read and closed; or
\* (after a read) it is deleted, the command executed and the result written.
\* accept is the broker's answer to OrderSend / OrderClose.
ProcessCommands(kind) ==
    /\ eaFolder # 0
    /\ tpc.kind = kind
    /\ LET command == files[eaFolder][CommandFile(kind)]
       IN  \/ /\ tpc.stage = "check"
              /\ ~command.exists
              /\ tpc' = [kind |-> NextKind(kind), stage |-> "check"]
              /\ UNCHANGED <<files, tbuf, openTickets, closedTickets, executed, deletedUnread,
                             accepted>>
           \/ /\ tpc.stage = "check"
              /\ command.exists
              /\ tbuf' = command
              /\ tpc' = [kind |-> kind, stage |-> "read"]
              /\ UNCHANGED <<files, openTickets, closedTickets, executed, deletedUnread,
                             accepted>>
           \/ /\ tpc.stage = "read"
              /\ \E accept \in BOOLEAN :
                    LET order == ExecuteOrderCommand(tbuf.text, accept, NewTicket)
                        close == ExecuteCloseCommand(tbuf.text, openTickets \cup closedTickets,
                                                     openTickets, accept)
                        text == CASE kind = "order" -> order.text
                                  [] kind = "close" -> close.text
                                  [] kind = "backtest" -> ExecuteBacktestCommand(tbuf.text)
                    IN  /\ files' = [files EXCEPT ![eaFolder] =
                               [@ EXCEPT ![CommandFile(kind)] = FileDelete(@),
                                         ![ResultFile(kind)] =
                                             [exists |-> TRUE, id |-> tbuf.id, text |-> text]]]
                        /\ openTickets' =
                               CASE kind = "order" /\ order.opened ->
                                        openTickets \cup {order.order.ticket}
                                 [] kind = "close" /\ close.closed ->
                                        openTickets \ {close.ticket}
                                 [] OTHER -> openTickets
                        /\ closedTickets' =
                               IF kind = "close" /\ close.closed
                               THEN closedTickets \cup {close.ticket}
                               ELSE closedTickets
                        /\ accepted' =
                               IF accept /\ kind # "backtest"
                               THEN accepted \cup {tbuf.id}
                               ELSE accepted
              /\ deletedUnread' =
                     IF command.exists /\ command.id # tbuf.id
                     THEN deletedUnread \cup {command.id}
                     ELSE deletedUnread
              /\ executed' = [executed EXCEPT ![tbuf.id] = @ + 1]
              /\ tbuf' = Absent
              /\ tpc' = [kind |-> NextKind(kind), stage |-> "check"]
    /\ UNCHANGED <<folderTypes, eaFolder, reqs, overwritten>>
    /\ UNCHANGED <<varsJson, varsPositions, varsCompile, varsSync, varsTools, varsBreakout>>

ProcessOrderCommands == ProcessCommands("order")
ProcessCloseCommands == ProcessCommands("close")
ProcessBacktestCommands == ProcessCommands("backtest")

(***************************************************************************)
(* Properties of the protocol                                              *)
(***************************************************************************)
\* C2: order round trip.  When the terminal has executed an order request's
\* command with a willing broker and written its result before the bridge
\* read it (the bridge read this very request's result), the answer carries a
\* result with success = true, the symbol and the operation that were sent,
\* and the lot size that was sent (two decimals in the file); for each of the
\* six operations.
C2_OrderRoundTrip ==
    \A r \in 1..Len(reqs) :
        (/\ reqs[r].kind = "order"
         /\ reqs[r].pc = "done"
         /\ reqs[r].seen = r
         /\ r \in accepted)
        => /\ reqs[r].resp.status = 200
           /\ reqs[r].resp.hasResult
           /\ LET result == reqs[r].resp.result
                  sent == reqs[r].body
              IN  /\ {<<"s","u","c","c","e","s","s">>, <<"s","y","m","b","o","l">>, <<"o","p","e","r","a","t","i","o","n">>, <<"l","o","t","s">>} \subseteq DOMAIN result
                  /\ result[<<"s","u","c","c","e","s","s">>] = JsonBoolean(TRUE)
                  /\ result[<<"s","y","m","b","o","l">>] = JsonString(ValueOf(sent, <<"s","y","m","b","o","l">>))
                  /\ result[<<"o","p","e","r","a","t","i","o","n">>] = JsonString(ValueOf(sent, <<"o","p","e","r","a","t","i","o","n">>))
                  /\ result[<<"l","o","t","s">>] = JsonNumber(StringToDouble(ValueOf(sent, <<"l","o","t","s">>)))

\* C3: when the timer of POST /api/order or POST /api/close fires and no
\* result file of that kind exists in any terminal folder, the request is
\* answered 200 with success = true and the "command sent to MT4" message.
C3_NoResultFileIsAcknowledged ==
    [][\A r \in 1..Len(reqs) :
          (/\ reqs[r].pc = "wait"
           /\ reqs'[r].pc = "done"
           /\ \A f \in FolderIds :
                 folderTypes[f] = "terminal" => ~files[f][ResultFile(reqs[r].kind)].exists)
          => /\ reqs'[r].resp.status = 200
             /\ reqs'[r].resp.success = TRUE
             /\ ~reqs'[r].resp.hasResult
             /\ reqs'[r].resp.message =
                    IF reqs[r].kind = "order" THEN "Order command sent to MT4"
                    ELSE "Close command sent to MT4"]_vars

\* C3 happens: an order and a close request, both answered without a result
\* file having been there.
C3_Witness ==
    /\ Len(reqs) = 2
    /\ \A r \in 1..2 : reqs[r].pc = "done" /\ reqs[r].wrote # 0 /\ reqs[r].seen = 0
    /\ {reqs[1].kind, reqs[2].kind} = {"order", "close"}

\* C5 as stated: the bridge handles one request at a time, so no request is
\* accepted while another is between its command write and its result read.
C5_OneRequestAtATime ==
    Cardinality({r \in 1..Len(reqs) : reqs[r].pc = "wait"}) <= 1

\* C5, amended: requests overlap (a request is accepted while another waits
\* for its timer), but each request keeps the order of its own steps.  A
\* waiting order / close request has written its command and is not yet
\* answered; an answered order / close request either failed to write
\* (500, no result file was read) or wrote and was answered 200.
C5_EachRequestWritesThenReads ==
    \A r \in 1..Len(reqs) :
        /\ reqs[r].pc = "wait" =>
              /\ reqs[r].kind \in {"order", "close"}
              /\ reqs[r].wrote # 0
              /\ reqs[r].resp = NoResponse
        /\ (reqs[r].pc = "done" /\ reqs[r].kind \in {"order", "close"}) =>
              IF reqs[r].wrote = 0
              THEN reqs[r].resp.status = 500 /\ reqs[r].seen = 0
              ELSE reqs[r].resp.status = 200

\* C5 happens: two order requests are both between write and read.
C5_Witness ==
    /\ Len(reqs) = 2
    /\ \A r \in 1..2 : reqs[r].kind = "order" /\ reqs[r].pc = "wait"

\* C6: a command replaced in the command file before the expert read it is
\* never executed, the expert never holds it, and every request whose
\* command was written (the replaced one and the replacing one alike) is
\* answered without an error.
C6_OverwrittenCommandIsLost ==
    /\ \A id \in overwritten : executed[id] = 0 /\ tbuf.id # id
    /\ \A r \in 1..Len(reqs) :
          (reqs[r].pc = "done" /\ reqs[r].wrote # 0) =>
              reqs[r].resp.status = 200 /\ reqs[r].resp.success = TRUE

\* C6 happens: the first of two order commands was replaced unread, the
\* second was executed, both requests are answered.
C6_Witness ==
    /\ Len(reqs) = 2
    /\ overwritten = {1}
    /\ executed[2] = 1
    /\ \A r \in 1..2 : reqs[r].kind = "order" /\ reqs[r].pc = "done"

\* C7: a command is handed to Execute*Command at most once, and once it has
\* been, the expert's command files no longer hold it.
C7_ExecutedAtMostOnce ==
    \A id \in 1..Len(reqs) :
        /\ executed[id] <= 1
        /\ executed[id] = 1 =>
              \A kind \in Kinds :
                  LET command == files[eaFolder][CommandFile(kind)]
                  IN  ~(command.exists /\ command.id = id)

\* C7 happens: an order command and a backtest command have been executed
\* and the expert has polled the order file again since.
C7_Witness ==
    /\ Len(reqs) = 2
    /\ {reqs[1].kind, reqs[2].kind} = {"order", "backtest"}
    /\ executed[1] = 1 /\ executed[2] = 1
    /\ tpc = [kind |-> "close", stage |-> "check"]

\* C8: when the timer of an order or close request fires while a result file
\* written for an earlier command is the one readMT4File finds, the request
\* is answered with that file's content as its result.
C8_StaleResultIsReturned ==
    [][\A r \in 1..Len(reqs) :
          LET kind == reqs[r].kind
              f == readMT4File(ResultFile(kind))
          IN  (/\ reqs[r].pc = "wait"
               /\ reqs'[r].pc = "done"
               /\ f # 0
               /\ files[f][ResultFile(kind)].id # r)
              => /\ reqs'[r].resp.status = 200
                 /\ reqs'[r].resp.hasResult
                 /\ JsonParse(Trim(files[f][ResultFile(kind)].text)).ok
                 /\ reqs'[r].resp.result =
                        JsonParse(Trim(files[f][ResultFile(kind)].text)).value]_vars

(***************************************************************************)
(* POST /api/ea/compile and compileEA (enhanced bridge)                    *)
(***************************************************************************)
\* METAEDITOR_PATHS: the string MT4_INSTALL_PATH itself, not a list of paths.
METAEDITOR_PATHS ==
    <<"C",":","\\","P","r","o","g","r","a","m"," ","F","i","l","e","s"," ","(","x","8","6",")","\\","P","e","p","p","e","r","s","t","o","n","e"," ","M","e","t","a","T","r","a","d","e","r"," ","4","\\","m","e","t","a","e","d","i","t","o","r",".","e","x","e">>

\* findMetaEditor: for (const editorPath of METAEDITOR_PATHS) walks the
\* string one character at a time; the first character fs.access succeeds
\* on is returned, "" stands for the throw after the loop.
RECURSIVE findMetaEditor(_, _)
findMetaEditor(paths, accessible) ==
    IF paths = <<>> THEN ""
    ELSE IF Head(paths) \in accessible THEN Head(paths)
    ELSE findMetaEditor(Tail(paths), accessible)

\* The compilation logs MetaEditor may leave ("" : no log file).
CompileLogs == {"", "Result: 0 error(s), 0 warning(s)", "Result: 2 error(s), 1 warning(s)"}

\* parseInt of the first match of /\d+ error\(s\)/ in the log, 0 without one.
ErrorCount(logContent) ==
    IF logContent = "Result: 2 error(s), 1 warning(s)" THEN 2 ELSE 0

CompileError(status, message) == [status |-> status, success |-> FALSE, error |-> message]

IdleCompile ==
    /\ cenv = [accessible |-> {}, executable |-> {}, editor |-> FALSE, experts |-> FALSE,
               eaFile |-> FALSE]
    /\ cpc = "idle"
    /\ proc = "none"
    /\ timer = "unset"
    /\ closePc = "none"
    /\ outcome = [code |-> 0, log |-> "", ex4 |-> FALSE]
    /\ cresp = NoResponse

\* Any file system: which one-character paths exist (the root "\" of the
\* drive, a file named C in the working directory), which of them can be
\* run, whether the file at the configured path METAEDITOR_PATHS exists,
\* whether a terminal folder has MQL4/Experts, whether the EA is in it.
InitCompile ==
    /\ \E accessible \in SUBSET {"C", "\\"} :
       \E executable \in SUBSET (accessible \cap {"C"}) :
       \E editor \in BOOLEAN :
       \E experts \in BOOLEAN :
       \E eaFile \in BOOLEAN :
          cenv = [accessible |-> accessible, executable |-> executable, editor |-> editor,
                  experts |-> experts, eaFile |-> experts /\ eaFile]
    /\ cpc = "idle"
    /\ proc = "none"
    /\ timer = "unset"
    /\ closePc = "none"
    /\ outcome = [code |-> 0, log |-> "", ex4 |-> FALSE]
    /\ cresp = NoResponse

\* POST /api/ea/compile up to the await of compileEA's promise: the checks
\* of the route, findMetaEditor, spawn, and the arming of the timer.
PostCompile(ea_name) ==
    /\ cpc = "idle"
    /\ LET editor == findMetaEditor(METAEDITOR_PATHS, cenv.accessible)
           answer(r) == /\ cpc' = "answered"
                        /\ cresp' = r
                        /\ UNCHANGED <<proc, timer>>
       IN  IF ea_name = ""
           THEN answer(CompileError(400, "Missing ea_name"))
           ELSE IF ~cenv.experts
           THEN answer(CompileError(500,
                    "Failed to find MT4 Experts directory: No MT4 Experts directory found"))
           ELSE IF ~cenv.eaFile
           THEN answer(CompileError(404, "EA file not found: MyEA.mq4"))
           ELSE IF editor = ""
           THEN answer(CompileError(500,
                    "MetaEditor not found. Please set MT4_INSTALL_PATH environment variable."))
           ELSE /\ cpc' = "pending"
                /\ proc' = IF editor \in cenv.executable THEN "running" ELSE "failed"
                /\ timer' = "armed"
                /\ cresp' = cresp
    /\ UNCHANGED <<cenv, closePc, outcome>>
    /\ UNCHANGED <<varsJson, varsPositions, varsBridge, varsSync, varsTools, varsBreakout>>

\* A promise whose every reject / resolve answers the request anew.
SettleAgain(r) == cpc' = "answered" /\ cresp' = r

\* reject(error) / resolve(value) of compileEA's promise, and with it the
\* continuation of the route that awaits it: only the first settlement
\* counts, and it answers the request.
Settle(r) ==
    IF cpc = "pending"
    THEN cpc' = "answered" /\ cresp' = r
    ELSE UNCHANGED <<cpc, cresp>>

\* compiler.on("error"): the process could not be started.  Node emits
\* 'close' for such a process as well, so the 'close' listener starts.
SpawnError ==
    /\ proc = "failed"
    /\ cpc = "pending"
    /\ closePc = "none"
    /\ closePc' = "readlog"
    /\ Settle(CompileError(500, "Failed to start MetaEditor: spawn EACCES"))
    /\ UNCHANGED <<cenv, proc, timer, outcome>>
    /\ UNCHANGED <<varsJson, varsPositions, varsBridge, varsSync, varsTools, varsBreakout>>

\* The compiler exits by itself: 'close' is emitted and its listener starts.
ProcessExits(code, log, ex4) ==
    /\ proc = "running"
    /\ proc' = "exited"
    /\ outcome' = [code |-> code, log |-> log, ex4 |-> ex4]
    /\ closePc' = "readlog"
    /\ UNCHANGED <<cenv, cpc, timer, cresp>>
    /\ UNCHANGED <<varsJson, varsPositions, varsBridge, varsSync, varsTools, varsBreakout>>

\* The 'close' listener up to its second await: fs.readFile(logFile).
CloseReadLog ==
    /\ closePc = "readlog"
    /\ closePc' = "access"
    /\ UNCHANGED <<cenv, cpc, proc, timer, outcome, cresp>>
    /\ UNCHANGED <<varsJson, varsPositions, varsBridge, varsSync, varsTools, varsBreakout>>

\* The rest of the 'close' listener: fs.access(ex4Path), the counts, resolve.
CloseResolve ==
    /\ closePc = "access"
    /\ closePc' = "done"
    /\ Settle([status |-> 200,
               success |-> ErrorCount(outcome.log) = 0,
               compiled |-> outcome.ex4,
               errors |-> ErrorCount(outcome.log),
               exit_code |-> outcome.code])
    /\ UNCHANGED <<cenv, proc, timer, outcome>>
    /\ UNCHANGED <<varsJson, varsPositions, varsBridge, varsSync, varsTools, varsBreakout>>

\* A timer callback that rejects without terminating the process.
KillNothing(p) == p

\* compiler.kill(): a running process is terminated.
Kill(p) == IF p = "running" THEN "killed" ELSE p

\* The timer's callback, 30000 ms after spawn: compiler.kill(), then
\* reject(new Error("Compilation timeout after 30 seconds")).  The killed
\* process emits 'close' (code null) and the listener starts.
TimerFires ==
    /\ timer = "armed"
    /\ timer' = "fired"
    /\ proc' = Kill(proc)
    /\ closePc' = IF proc' = "killed" THEN "readlog" ELSE closePc
    /\ Settle(CompileError(500, "Compilation timeout after 30 seconds"))
    /\ UNCHANGED <<cenv, outcome>>
    /\ UNCHANGED <<varsJson, varsPositions, varsBridge, varsSync, varsTools, varsBreakout>>

\* C9: when the timer fires while the compiler is still running, the process
\* is killed and the request is answered 500 with the error 'Compilation
\* timeout after 30 seconds'; from then on the process is not running.
C9_TimeoutKillsAndAnswers ==
    /\ [][(timer = "armed" /\ timer' = "fired" /\ proc = "running")
          => /\ proc' = "killed"
             /\ cpc' = "answered"
             /\ cresp' = [status |-> 500, success |-> FALSE,
                          error |-> "Compilation timeout after 30 seconds"]]_vars
    /\ [](timer = "fired" => proc # "running")

\* C9 happens: the timer fired on a running compiler and the listener of the
\* killed process has run to its end.
C9_Witness ==
    /\ timer = "fired"
    /\ proc = "killed"
    /\ closePc = "done"
    /\ cresp.status = 500
    /\ cresp.error = "Compilation timeout after 30 seconds"

(***************************************************************************)
(* sync_ea (index.ts syncEA) and POST /api/ea/upload (enhanced bridge)     *)
(***************************************************************************)
\* Bound of the model: the number of sync_ea calls.
MaxCalls == 2

EaNames == {"TrendEA", "GridEA"}
EaContents == {"", "// v1", "// v2"}

NoLocalFile == [exists |-> FALSE, content |-> "", writer |-> 0]

\* A log file that was not written yet; kind names the entry a log holds,
\* writer the call that wrote it (history, not program state).
NoLog == [kind |-> "none", writer |-> 0]

\* A call that writes no log.
WriteNoLog(log, kind, c) == log

\* fs.writeFileSync(syncLogPath, ...) / fs.writeFileSync(logPath, ...) by call c.
WriteLog(log, kind, c) == [kind |-> kind, writer |-> c]

IdleSync ==
    /\ benv = [bridge |-> "down", experts |-> FALSE]
    /\ expertsFiles = [n \in EaNames |-> NoFile]
    /\ active = [n \in EaNames |-> NoLocalFile]
    /\ synclog = [n \in EaNames |-> NoLog]
    /\ calls = <<>>
    /\ complog = [n \in EaNames |-> NoLog]
    /\ compiled = [n \in EaNames |-> [exists |-> FALSE, writer |-> 0]]
    /\ compiles = <<>>

\* The bridge is not running, is the basic server.js (no /api/ea/upload) or
\* the enhanced bridge, with or without a terminal folder that has
\* MQL4/Experts; nothing has been synced.
InitSync ==
    /\ benv \in [bridge : {"down", "basic", "enhanced"}, experts : BOOLEAN]
    /\ expertsFiles = [n \in EaNames |-> NoFile]
    /\ active = [n \in EaNames |-> NoLocalFile]
    /\ synclog = [n \in EaNames |-> NoLog]
    /\ calls = <<>>
    /\ complog = [n \in EaNames |-> NoLog]
    /\ compiled = [n \in EaNames |-> [exists |-> FALSE, writer |-> 0]]
    /\ compiles = <<>>

\* The text sync_ea returns: its first line, and whether it carries the
\* manual deployment steps.
SyncText(kind) ==
    CASE kind = "success" -> [text |-> "EA Sync Successful!", manual |-> FALSE]
      [] kind = "prepared" ->
            [text |-> "EA Sync Prepared (API endpoints not available)", manual |-> TRUE]
      [] kind = "failed" -> [text |-> "EA Sync Failed", manual |-> FALSE]

\* A sync that skips the local copy.
SaveNothing(file, content, c) == file

\* fs.writeFileSync(eaPath, args.ea_content) by call c.
SaveLocally(file, content, c) == [exists |-> TRUE, content |-> content, writer |-> c]

\* What makeApiCall("/api/ea/upload") ends with.  A bridge that is down
\* refuses the connection; a late answer is a timeout; the basic bridge has
\* no such route; the enhanced bridge answers 400 for an empty name or
\* content, 500 without an Experts directory, and 200 otherwise.
UploadOutcome(name, content, net) ==
    IF benv.bridge = "down" THEN "refused"
    ELSE IF net = "timeout" THEN "timeout"
    ELSE IF benv.bridge = "basic" THEN "http404"
    ELSE IF name = "" \/ content = "" THEN "http400"
    ELSE IF ~benv.experts THEN "http500"
    ELSE "ok"

\* syncEA up to the await of the upload: the directories, the local copy,
\* the sync log.  fails names the write that throws (the outer catch then
\* answers "EA Sync Failed" and nothing is uploaded).
SyncStart(name, content, fails) ==
    /\ Len(calls) < MaxCalls
    /\ LET c == Len(calls) + 1
           call == [name |-> name, content |-> content, upload |-> "none"]
       IN  /\ active' = IF fails = "ea file" THEN active
                        ELSE [active EXCEPT ![name] = SaveLocally(@, content, c)]
           /\ synclog' = IF fails = "nothing"
                         THEN [synclog EXCEPT ![name] = WriteLog(@, "ready", c)]
                         ELSE synclog
           /\ calls' = Append(calls, call @@
                  IF fails = "nothing"
                  THEN [pc |-> "uploading", saved |-> TRUE, result |-> "none"]
                  ELSE [pc |-> "done", saved |-> fails # "ea file", result |-> "failed"])
    /\ UNCHANGED <<benv, expertsFiles, complog, compiled, compiles>>
    /\ UNCHANGED <<varsJson, varsPositions, varsBridge, varsCompile, varsTools, varsBreakout>>

\* The upload and the rest of syncEA.  The enhanced bridge writes the file
\* into MQL4/Experts when the request is valid (also when its answer comes
\* too late).  A successful upload rewrites the sync log and returns the
\* success text; a failed upload, or a failed rewrite of the log, lands in
\* the inner catch, which rewrites the log and returns the manual steps;
\* when that write throws too, the outer catch returns "EA Sync Failed".
SyncFinish(c, net, logFails) ==
    /\ c \in 1..Len(calls)
    /\ calls[c].pc = "uploading"
    /\ LET name == calls[c].name
           content == calls[c].content
           upload == UploadOutcome(name, content, net)
           arrives == /\ benv.bridge = "enhanced"
                      /\ benv.experts
                      /\ name # "" /\ content # ""
           kind == IF logFails THEN "failed"
                   ELSE IF upload = "ok" THEN "success" ELSE "prepared"
       IN  /\ expertsFiles' = IF arrives THEN [expertsFiles EXCEPT ![name] = FileOf(content)]
                              ELSE expertsFiles
           /\ synclog' = IF logFails THEN synclog
                         ELSE [synclog EXCEPT ![name] =
                                  WriteLog(@, IF upload = "ok" THEN "success" ELSE "manual", c)]
           /\ calls' = [calls EXCEPT ![c].pc = "done", ![c].upload = upload,
                                     ![c].result = kind]
    /\ UNCHANGED <<benv, active, complog, compiled, compiles>>
    /\ UNCHANGED <<varsJson, varsPositions, varsBridge, varsCompile, varsTools, varsBreakout>>

\* A compile_ea that copies the source after any answer of the bridge.
CopyAlways(file, success, c) == [exists |-> TRUE, writer |-> c]

\* if (result.success) fs.copyFileSync(activePath, compiledPath), by call c.
CopyIfSuccess(file, success, c) ==
    IF success THEN [exists |-> TRUE, writer |-> c] ELSE file

\* compile_ea (index.ts compileEA) up to the await of the remote
\* compilation: the directories, the check that active/<name>.mq4 exists.
\* fails tells that mkdirSync throws (the outer catch then answers "EA
\* Compilation Process Failed").
CompileEaStart(name, fails) ==
    /\ Len(compiles) < MaxCalls
    /\ LET call == [name |-> name, present |-> active[name].exists, remote |-> "none"]
       IN  compiles' = Append(compiles, call @@
              IF fails THEN [pc |-> "done", result |-> "process failed"]
              ELSE IF ~active[name].exists THEN [pc |-> "done", result |-> "not found"]
              ELSE [pc |-> "compiling", result |-> "none"])
    /\ UNCHANGED <<benv, expertsFiles, active, synclog, calls, complog, compiled>>
    /\ UNCHANGED <<varsJson, varsPositions, varsBridge, varsCompile, varsTools, varsBreakout>>

\* The remote compilation and the rest of compileEA.  remote is how
\* makeApiCall("/api/ea/compile") ended: "success" or "errors" (an answer
\* with success true or false) or "failed"; only the enhanced bridge
\* answers.  After an answer the log is written and, when the answer says
\* success, the source is copied to compiled/; when one of these throws
\* (fails = "first"), or when the call failed, the catch writes the manual
\* log; when that write throws too, the outer catch answers.
CompileEaFinish(c, remote, fails) ==
    /\ c \in 1..Len(compiles)
    /\ compiles[c].pc = "compiling"
    /\ benv.bridge # "enhanced" => remote = "failed"
    /\ LET name == compiles[c].name
           kind == IF remote = "failed"
                   THEN IF fails = "nothing" THEN "manual" ELSE "process failed"
                   ELSE CASE fails = "nothing" -> "successful"
                          [] fails = "first" -> "manual"
                          [] fails = "all" -> "process failed"
       IN  /\ complog' = CASE kind = "successful" ->
                                [complog EXCEPT ![name] = WriteLog(@, "remote", c)]
                           [] kind = "manual" ->
                                [complog EXCEPT ![name] = WriteLog(@, "manual", c)]
                           [] kind = "process failed" -> complog
           /\ compiled' = IF kind = "successful"
                          THEN [compiled EXCEPT ![name] = CopyIfSuccess(@, remote = "success", c)]
                          ELSE compiled
           /\ compiles' = [compiles EXCEPT ![c].pc = "done", ![c].remote = remote,
                                           ![c].result = kind]
    /\ UNCHANGED <<benv, expertsFiles, active, synclog, calls>>
    /\ UNCHANGED <<varsJson, varsPositions, varsBridge, varsCompile, varsTools, varsBreakout>>

\* C10 as stated: whenever the upload of a sync_ea call failed, the local
\* copy exists with the content the call submitted and the returned text
\* carries the manual deployment steps.
C10_LocalCopyAndManualSteps ==
    \A c \in 1..Len(calls) :
        (calls[c].pc = "done" /\ calls[c].upload \notin {"none", "ok"})
        => /\ active[calls[c].name].exists
           /\ active[calls[c].name].content = calls[c].content
           /\ SyncText(calls[c].result).manual

\* C10, amended: the upload is attempted only after the local copy was
\* written.  Whenever the upload of a call failed, the local copy exists and
\* holds the content of the latest sync_ea call that wrote that name (the
\* submitted content unless a later call for the same name wrote it), and
\* the call returned a text: the manual deployment steps, or "EA Sync
\* Failed" when the sync log could not be rewritten.
C10_LocalCopySurvivesFailedUpload ==
    \A c \in 1..Len(calls) :
        /\ calls[c].pc = "uploading" => calls[c].saved
        /\ (calls[c].pc = "done" /\ calls[c].upload \notin {"none", "ok"}) =>
              LET file == active[calls[c].name]
              IN  /\ calls[c].saved
                  /\ file.exists
                  /\ file.writer >= c
                  /\ calls[file.writer].name = calls[c].name
                  /\ file.content = calls[file.writer].content
                  /\ calls[c].result \in {"prepared", "failed"}
                  /\ calls[c].result = "prepared" => SyncText(calls[c].result).manual

\* C10 happens: the upload of a call failed, the manual steps were returned
\* and the local copy holds the submitted content.
C10_Witness ==
    \E c \in 1..Len(calls) :
        /\ calls[c].pc = "done"
        /\ calls[c].upload = "http500"
        /\ calls[c].result = "prepared"
        /\ active[calls[c].name] = [exists |-> TRUE, content |-> calls[c].content, writer |-> c]

(***************************************************************************)
(* The MCP server's tool dispatch (index.ts): the CallTool handler, the    *)
(* handlers of the tools up to and after their one await of makeApiCall.   *)
(* A text is held by its first line, without the pictograph some start     *)
(* with.  The arguments of a call are "absent" (the request carries no     *)
(* arguments object), "empty" (an object with none of the fields) or       *)
(* "full"; the SDK's Server hands them to the handler unvalidated.         *)
(***************************************************************************)
ToolNames ==
    {"get_account_info", "get_market_data", "place_order", "get_positions",
     "close_position", "get_history", "run_backtest", "get_backtest_results",
     "list_experts", "get_backtest_status", "sync_ea", "compile_ea",
     "list_local_eas", "sync_ea_from_file"}

\* The "required" list of each tool's inputSchema.
RequiredFields(name) ==
    CASE name = "get_market_data" -> {"symbol"}
      [] name = "place_order" -> {"symbol", "operation", "lots"}
      [] name = "close_position" -> {"ticket"}
      [] name = "run_backtest" -> {"expert", "symbol", "timeframe", "from_date", "to_date"}
      [] name = "sync_ea" -> {"ea_name", "ea_content"}
      [] name = "compile_ea" -> {"ea_name"}
      [] name = "sync_ea_from_file" -> {"file_path"}
      [] OTHER -> {}

\* What makeApiCall ends with: the response data, or the Error it throws.
\* A timeout and a refused connection are axios errors without a response.
makeApiCall(api) ==
    CASE api = "ok" -> [ok |-> TRUE, message |-> ""]
      [] api = "http" ->
            [ok |-> FALSE,
             message |-> "MT4 API Error: Request failed with status code 500 (Internal Server Error)"]
      [] api \in {"timeout", "refused"} ->
            [ok |-> FALSE,
             message |-> "MT4 API Error: Request failed with status code unknown (unknown)"]

\* A dispatch whose catch lets the exception through.
Rethrow(h) == [type |-> IF h.thrown THEN "exception" ELSE "text", text |-> h.text]

\* The try / catch of the CallTool handler: what a tool handler returned is
\* returned, what it threw becomes a text.
CatchError(h) ==
    [type |-> "text", text |-> IF h.thrown THEN "Error: " \o h.text ELSE h.text]

\* A tool handler from its start to its await of makeApiCall, or to its end
\* when it does not get that far.  local is the state of the local files the
\* handler touches: "ok", "missing" (the EA file asked for is not there) or
\* "fails" (the file system call throws).
HandlerStart(name, args, local) ==
    LET Await == [await |-> TRUE, thrown |-> FALSE, text |-> ""]
        Return(t) == [await |-> FALSE, thrown |-> FALSE, text |-> t]
        Throw(m) == [await |-> FALSE, thrown |-> TRUE, text |-> m]
    IN  CASE name \in {"get_account_info", "get_positions", "list_experts",
                       "get_backtest_status"} -> Await
          [] name \in {"place_order", "close_position", "get_history", "run_backtest",
                       "get_backtest_results"} ->
                IF args = "absent" THEN Throw("Cannot read properties of undefined")
                ELSE Await
          [] name = "get_market_data" ->
                IF args = "absent"
                THEN Throw("Cannot destructure property 'symbol' of 'args' as it is undefined.")
                ELSE Await
          [] name = "sync_ea" ->
                IF local = "fails" \/ args # "full" THEN Return("EA Sync Failed") ELSE Await
          [] name = "compile_ea" ->
                IF local = "fails" \/ args = "absent"
                THEN Return("EA Compilation Process Failed")
                ELSE IF local = "missing" \/ args = "empty"
                THEN Return("EA not found in ea-strategies/active/")
                ELSE Await
          [] name = "list_local_eas" ->
                IF local = "fails" \/ args = "absent" THEN Return("Error listing EAs")
                ELSE IF local = "missing" THEN Return("No .mq4 files found in any EA folders.")
                ELSE Return("Found EA files")
          [] name = "sync_ea_from_file" ->
                IF args = "absent" THEN Return("Error reading EA file")
                ELSE IF local = "missing" \/ args = "empty" THEN Return("File not found")
                ELSE IF local = "fails" THEN Return("Error reading EA file")
                ELSE Await
          [] OTHER -> Throw("Unknown tool: " \o name)

\* The rest of a tool handler, from the end of makeApiCall.  file is the
\* state of the handler's fallback file under the reports path: "missing",
\* "json" or "garbage" (not JSON); local is as above.
HandlerFinish(name, api, local, file) ==
    LET answer == makeApiCall(api)
        Return(t) == [thrown |-> FALSE, text |-> t, fallback |-> FALSE]
        OrThrow(t) == IF answer.ok THEN Return(t)
                      ELSE [thrown |-> TRUE, text |-> answer.message, fallback |-> FALSE]
        FromFile(what, title) ==
            [thrown |-> FALSE, fallback |-> TRUE,
             text |-> IF file = "missing" THEN "No backtest " \o what \o " file found"
                      ELSE IF file = "garbage" \/ local = "fails"
                      THEN "Error reading backtest " \o what \o " file"
                      ELSE title \o " (from file):"]
    IN  CASE name = "get_account_info" -> OrThrow("MT4 Account Information:")
          [] name = "get_market_data" -> OrThrow("Market data for symbol:")
          [] name = "place_order" -> OrThrow("Order result:")
          [] name = "get_positions" -> OrThrow("Open Positions:")
          [] name = "close_position" -> OrThrow("Close position result:")
          [] name = "get_history" -> OrThrow("Trading History:")
          [] name = "run_backtest" -> OrThrow("Backtest initiated:")
          [] name = "get_backtest_results" ->
                IF answer.ok THEN Return("Backtest Results:")
                ELSE FromFile("results", "Backtest Results")
          [] name = "get_backtest_status" ->
                IF answer.ok THEN Return("Backtest Status:")
                ELSE FromFile("status", "Backtest Status")
          [] name = "list_experts" ->
                IF answer.ok THEN Return("Available Expert Advisors:")
                ELSE Return("Expert Advisors (fallback list - experts_list.txt not found on MT4 side):")
          [] name \in {"sync_ea", "sync_ea_from_file"} ->
                IF local = "fails" THEN Return("EA Sync Failed")
                ELSE IF answer.ok THEN Return("EA Sync Successful!")
                ELSE Return("EA Sync Prepared (API endpoints not available)")
          [] name = "compile_ea" ->
                IF local = "fails" THEN Return("EA Compilation Process Failed")
                ELSE IF answer.ok THEN Return("Remote EA Compilation Successful!")
                ELSE Return("Remote compilation not available - Manual compilation required")

NoCall == [pc |-> "idle", name |-> "", args |-> "absent", http |-> 0, api |-> "none",
           fallback |-> FALSE, result |-> [type |-> "none", text |-> ""]]

IdleTools ==
    /\ tc = NoCall
    /\ reports = [status |-> "missing", results |-> "missing"]

\* No tool was called yet; each of backtest_status.json and
\* backtest_results.json is missing, holds JSON or holds something else.
InitTools ==
    /\ tc = NoCall
    /\ reports \in [status : {"missing", "json", "garbage"},
                    results : {"missing", "json", "garbage"}]

\* A tools/call request arrives and its handler runs to its await of
\* makeApiCall (one HTTP request is sent), or to its end.
CallTool(name, args, local) ==
    /\ tc.pc # "await"
    /\ LET h == HandlerStart(name, args, local)
       IN  tc' = IF h.await
                 THEN [NoCall EXCEPT !.pc = "await", !.name = name, !.args = args,
                                     !.http = 1]
                 ELSE [NoCall EXCEPT !.pc = "done", !.name = name, !.args = args,
                                     !.result = CatchError(h)]
    /\ UNCHANGED reports
    /\ UNCHANGED <<varsJson, varsPositions, varsBridge, varsCompile, varsSync, varsBreakout>>

\* The HTTP request of the call in hand ends (with an answer, an HTTP error,
\* a timeout or a refused connection) and the handler runs to its end.
ApiAnswers(api, local) ==
    /\ tc.pc = "await"
    /\ LET file == IF tc.name = "get_backtest_status" THEN reports.status
                   ELSE reports.results
           h == HandlerFinish(tc.name, api, local, file)
       IN  tc' = [tc EXCEPT !.pc = "done", !.api = api, !.fallback = h.fallback,
                            !.result = CatchError(h)]
    /\ UNCHANGED reports
    /\ UNCHANGED <<varsJson, varsPositions, varsBridge, varsCompile, varsSync, varsBreakout>>

\* C11: every tool call, whatever the tool name and however the HTTP request
\* to the bridge ended, returns a text content and never lets an exception
\* out of the handler; an unknown tool name returns
\* "Error: Unknown tool: <name>".
C11_EveryCallReturnsText ==
    tc.pc = "done" =>
        /\ tc.result.type = "text"
        /\ tc.result.text # ""
        /\ tc.name \notin ToolNames => tc.result.text = "Error: Unknown tool: " \o tc.name

\* C11 happens: a tool name the switch does not know was called and the
\* call was answered with the text naming it.
C11_WitnessUnknown ==
    /\ tc.pc = "done"
    /\ tc.name = "get_quotes"
    /\ tc.result = [type |-> "text", text |-> "Error: Unknown tool: get_quotes"]

\* C12 as stated: a call of place_order, close_position, get_market_data or
\* run_backtest that lacks its required fields is rejected before anything
\* is forwarded: no HTTP request is sent for it.
C12_MissingFieldsAreRejected ==
    (/\ tc.pc # "idle"
     /\ tc.name \in {"place_order", "close_position", "get_market_data", "run_backtest"}
     /\ RequiredFields(tc.name) # {}
     /\ tc.args = "empty")
    => tc.http = 0

\* C14, on the side of the MCP server: a tool call sends at most one HTTP
\* request (the fallbacks read local files, they do not ask again), and a
\* call whose request failed ends with a text.
C14_OneHttpRequestPerCall ==
    /\ tc.http <= 1
    /\ (tc.pc = "done" /\ tc.api \notin {"none", "ok"}) =>
          /\ tc.http = 1
          /\ tc.result.type = "text"
          /\ tc.result.text # ""

\* C15 as stated: get_backtest_status and get_backtest_results call the
\* bridge API first and fall back to the file under the reports path when,
\* and only when, that call fails; the fallback always returns a text: the
\* "No backtest ... file found" text for a missing file, an "Error reading
\* ..." text for a file that cannot be read or is not JSON.
C15_ApiFirstThenFallback ==
    (tc.pc = "done" /\ tc.name \in {"get_backtest_status", "get_backtest_results"}) =>
        LET what == IF tc.name = "get_backtest_status" THEN "status" ELSE "results"
            file == IF tc.name = "get_backtest_status" THEN reports.status
                    ELSE reports.results
        IN  /\ tc.http = 1
            /\ tc.fallback <=> tc.api # "ok"
            /\ tc.result.type = "text"
            /\ (tc.fallback /\ file = "missing") =>
                  tc.result.text = "No backtest " \o what \o " file found"
            /\ (tc.fallback /\ file = "garbage") =>
                  tc.result.text = "Error reading backtest " \o what \o " file"

\* C13 as stated: a command file is written into the first enumerated
\* 32-character folder that already contains MQL4/Files; the other folders
\* are left untouched and nothing is created; when no folder contains
\* MQL4/Files the request fails and nothing is written.
C13_FirstFolderWithSubpathIsUsed ==
    [][Len(reqs') > Len(reqs) =>
          LET first == FirstFolder({f \in FolderIds : folderTypes[f] = "terminal"})
          IN  /\ folderTypes' = folderTypes
              /\ \A f \in FolderIds : f # first => files'[f] = files[f]
              /\ first = 0 => reqs'[Len(reqs')].resp.status = 500]_vars

C17_HistoryIsEventuallyReturned ==
    <>(/\ historyResp.status = 200
       /\ historyTxt[historyResp.days].exists)

\* C18 as stated: a compilation is answered success = true only if the .ex4
\* was created (compiled = true) and the log shows zero errors; a missing
\* log or a missing .ex4 is never answered as a success.
C18_SuccessNeedsEx4AndNoErrors ==
    (cresp.status = 200 /\ cresp.success) =>
        /\ cresp.compiled
        /\ cresp.errors = 0
        /\ outcome.ex4
        /\ outcome.log # ""

\* C19 as stated: findMetaEditor returns the configured path when that file
\* exists and fails with "MetaEditor not found" otherwise: the compiler is
\* only started with the configured path as its editor, and the route only
\* answers "MetaEditor not found" when the configured file does not exist.
C19_FindsConfiguredEditor ==
    LET editorPath == findMetaEditor(METAEDITOR_PATHS, cenv.accessible)
    IN  /\ cpc = "pending" => (cenv.editor /\ <<editorPath>> = METAEDITOR_PATHS)
        /\ (cpc = "answered" /\ cresp.status = 500 /\
            cresp.error = "MetaEditor not found. Please set MT4_INSTALL_PATH environment variable.")
           => ~cenv.editor

(***************************************************************************)
(* Harness for ExecuteOrderCommand: the expert reads whatever text is in   *)
(* order_commands.txt.  The commands tried hold an operation (one of the   *)
(* six, an unknown one, a lower-case one; written as a JSON string or      *)
(* bare), lots and a price, in two member orders, or no operation at all.  *)
(***************************************************************************)
InitSpecOrder ==
    /\ \E operation \in Operations \cup {<<"H","O","L","D">>, <<"b","u","y">>} :
       \E str \in BOOLEAN :
       \E price \in {<<"0">>, <<"1",".","2">>, <<"1",".","0","8","4","9">>} :
          LET op == Member(<<"o","p","e","r","a","t","i","o","n">>, str, operation)
              lots == Member(<<"l","o","t","s">>, FALSE, <<"0",".","1">>)
              pr == Member(<<"p","r","i","c","e">>, FALSE, price)
          IN  jsonObj \in {<<op, lots, pr>>, <<lots, pr, op>>, <<lots, pr>>}
    /\ jsonKey = <<>>
    /\ jsonValue = <<>>
    /\ jsonPc = "ready"
    /\ IdlePositions /\ IdleBridge /\ IdleCompile /\ IdleSync /\ IdleTools /\ IdleBreakout

\* ProcessOrderCommands hands the text to ExecuteOrderCommand; the broker
\* accepts the order (ticket 7) or refuses it.
ExecuteOrderStep(accept) ==
    /\ jsonPc = "ready"
    /\ jsonValue' = ExecuteOrderCommand(JsonStringify(jsonObj), accept, 7)
    /\ jsonPc' = "done"
    /\ UNCHANGED <<jsonObj, jsonKey>>
    /\ UNCHANGED <<varsPositions, varsBridge, varsCompile, varsSync, varsTools, varsBreakout>>

SpecOrder == InitSpecOrder /\ [][\E accept \in BOOLEAN : ExecuteOrderStep(accept)]_vars

C21_CompiledOnlyAfterSuccess ==
    /\ [](\A n \in EaNames :
            compiled[n].exists =>
               \E c \in 1..Len(compiles) :
                  /\ compiled[n].writer = c
                  /\ compiles[c].name = n
                  /\ compiles[c].pc = "done"
                  /\ compiles[c].remote = "success")
    /\ [][\A c \in 1..Len(compiles) :
            (compiles[c].pc = "compiling" /\ compiles'[c].pc = "done"
             /\ compiles'[c].remote # "success") => compiled' = compiled]_vars

\* C21 happens: for one name a compile_ea got success = true and the source
\* is in compiled/, after another compile_ea for that name got success =
\* false; a compile_ea for the other name failed remotely and left nothing.
C21_Witness ==
    /\ Len(compiles) = 2
    /\ compiles[1].pc = "done" /\ compiles[1].remote = "errors"
    /\ compiles[2].pc = "done" /\ compiles[2].remote = "success"
    /\ compiles[1].name = compiles[2].name
    /\ compiled[compiles[2].name] = [exists |-> TRUE, writer |-> 2]
    /\ \A n \in EaNames : n # compiles[2].name => ~compiled[n].exists

\* C25 as stated: in every interleaving of a bridge write with the steps of
\* Process*Commands, a command file written by the bridge is never deleted
\* by the terminal without that command having been read and executed.
C25_NoCommandDeletedUnread ==
    \A id \in deletedUnread : executed[id] >= 1 \/ tbuf.id = id

\* C26 as stated: within one POST /api/order or POST /api/close request the
\* result file is read from the terminal directory the command file was
\* written into, whatever directories with 32-character names there are.
C26_ReadsWhereItWrote ==
    [][\A r \in 1..Len(reqs) :
          LET f == readMT4File(ResultFile(reqs[r].kind))
          IN  (reqs[r].pc = "wait" /\ reqs'[r].pc = "done" /\ f # 0)
              => f = reqs[r].wrote]_vars

Point == 10
g_pointValue == Point * 10

\* The inputs of the experts at their defaults (UseTrailing, UseTrailingStop
\* and UseVolumeFilter on, UseTimeFilter and UseDynamicTP off).
BreakoutPips == 5
StopLossPips == 20
TakeProfitPips == 40
StaticTPPips == 30
TrailPips == 15
TrailingStepPips == 5
MaxDailyLoss == 100

LookbackBars == 20

\* The ask price: the spread is two pips.
Ask == Bid + 2 * g_pointValue

\* NormalizeDouble(value, Digits): the multiple of a point nearest to value.
NormalizeDouble(value) == ((value + Point \div 2) \div Point) * Point

\* The High[] and Low[] series a new bar can find, <<High, Low>> in pips for
\* bar 0 (the bar that opens) to bar 22: a rise that left a swing high at
\* 100 behind and a swing low at 130 above it, and a steady rise without
\* any swing point.
Charts ==
    {<< <<120, 110>>, <<144, 132>>, <<145, 135>>, <<140, 130>>, <<148, 134>>, <<150, 140>>,
        <<99, 89>>, <<98, 88>>, <<100, 90>>, <<95, 85>>, <<90, 80>> >>
        \o [k \in 1..12 |-> <<90 - 5 * k, 80 - 5 * k>>],
     [k \in 1..23 |-> <<205 - 5 * k, 195 - 5 * k>>]}

\* FindSRLevels / FindSupportResistanceLevels: the swing highs (resistance)
\* and swing lows (support) of bars LookbackBars down to 3 (AdvancedBreakoutEA:
\* down to 2) that CountTouches finds touched at least twice, in the order
\* they are added; AdvancedBreakoutEA sorts them by touches, most first.
\* CountTouches of BreakoutEA counts bars 1 .. 2 * LookbackBars - 1, the
\* level's own bar included; AdvancedBreakoutEA counts the bars older than
\* the level's.
FindSRLevels(name, chart) ==
    LET High(i) == chart[i + 1][1] * g_pointValue
        Low(i) == chart[i + 1][2] * g_pointValue
        tolerance == BreakoutPips * g_pointValue
        first == IF name = "AdvancedBreakoutEA" THEN 2 ELSE 3
        Bars == Len(chart)
        Last(a, b) == IF a < b THEN a ELSE b
        Distance(a, b) == IF a < b THEN b - a ELSE a - b
        CountTouches(level, isHigh, startBar) ==
            1 + Cardinality({i \in (IF name = "AdvancedBreakoutEA" THEN startBar + 1 ELSE 1)
                                   .. Last(LookbackBars * 2, Bars) - 1 :
                                Distance(IF isHigh THEN High(i) ELSE Low(i), level) <= tolerance})
        candidates ==
            [k \in 1..2 * (LookbackBars - first + 1) |->
                LET i == LookbackBars - (k - 1) \div 2
                    isHigh == k % 2 = 1
                IN  [bar |-> i,
                     isSupport |-> ~isHigh,
                     price |-> IF isHigh THEN High(i) ELSE Low(i),
                     swing |-> IF isHigh
                               THEN /\ High(i) > High(i + 1) /\ High(i) > High(i - 1)
                                    /\ High(i) > High(i + 2) /\ High(i) > High(i - 2)
                               ELSE /\ Low(i) < Low(i + 1) /\ Low(i) < Low(i - 1)
                                    /\ Low(i) < Low(i + 2) /\ Low(i) < Low(i - 2),
                     strength |-> CountTouches(IF isHigh THEN High(i) ELSE Low(i), isHigh, i)]]
        IsLevel(c) == c.swing /\ c.strength >= 2
        found == SelectSeq(candidates, IsLevel)
        RECURSIVE ByStrength(_)
        ByStrength(t) ==
            IF t < 2 THEN <<>>
            ELSE SelectSeq(found, LAMBDA c : c.strength = t) \o ByStrength(t - 1)
    IN  IF name = "AdvancedBreakoutEA" THEN ByStrength(Bars) ELSE found

\* GetOpenTrades / CountOpenPositions: the open orders with the expert's
\* magic number and symbol.
GetOpenTrades(open) == Cardinality(open)

\* ValidateSignal / ValidateBreakout: no position in the same direction
\* yet; AdvancedBreakoutEA first asks for volume (Volume[0] at least 1.5
\* times the average) and, with UseMomentumFilter, for momentum rising
\* (bullish) or falling (bearish).
ValidateSignal(isBuy, open, tick) ==
    /\ eaInputs.name = "AdvancedBreakoutEA" =>
          /\ tick.volume
          /\ eaInputs.UseMomentumFilter =>
                IF isBuy THEN tick.momentum > 0 ELSE tick.momentum < 0
    /\ ~\E t \in open : t.type = IF isBuy THEN "BUY" ELSE "SELL"

\* OpenTrade / ExecuteBreakoutTrade: OrderSend at the market with stop loss
\* and take profit; nothing is opened when the broker refuses the order.
\* The ticket is the lowest number no open order carries.
OpenTrade(isBuy, open, tick) ==
    LET ticket == CHOOSE n \in 1..Cardinality(open) + 1 :
                      /\ \A t \in open : t.ticket # n
                      /\ \A m \in 1..n - 1 : \E t \in open : t.ticket = m
        slDistance == StopLossPips * g_pointValue
        tpDistance == IF eaInputs.name = "AdvancedBreakoutEA" THEN StaticTPPips * g_pointValue
                      ELSE TakeProfitPips * g_pointValue
    IN  IF ~tick.accept THEN open
        ELSE IF isBuy
        THEN open \cup {[ticket |-> ticket, type |-> "BUY", open |-> Ask,
                         sl |-> NormalizeDouble(Ask - slDistance),
                         tp |-> NormalizeDouble(Ask + tpDistance)]}
        ELSE open \cup {[ticket |-> ticket, type |-> "SELL", open |-> Bid,
                         sl |-> NormalizeDouble(Bid + slDistance),
                         tp |-> NormalizeDouble(Bid - tpDistance)]}

\* CheckBreakouts / CheckBreakoutSignals from level i on: the orders open
\* after the loop over the levels.  BreakoutEA compares GetOpenTrades() with
\* MaxTrades once, before the loop.
RECURSIVE CheckBreakouts(_, _, _, _)
CheckBreakouts(levels, i, open, tick) ==
    IF Len(levels) = 0 THEN open
    ELSE IF i = 1 /\ eaInputs.name # "AdvancedBreakoutEA" /\ GetOpenTrades(open) >= eaInputs.MaxTrades
    THEN open
    ELSE IF i > Len(levels) THEN open
    ELSE LET price == (Ask + Bid) \div 2
             tolerance == BreakoutPips * g_pointValue
             level == levels[i].price
             bullish == IF /\ ~levels[i].isSupport
                           /\ price > level + tolerance
                           /\ ValidateSignal(TRUE, open, tick)
                        THEN OpenTrade(TRUE, open, tick)
                        ELSE open
             bearish == IF /\ levels[i].isSupport
                           /\ price < level - tolerance
                           /\ ValidateSignal(FALSE, bullish, tick)
                        THEN OpenTrade(FALSE, bullish, tick)
                        ELSE bullish
         IN  CheckBreakouts(levels, i + 1, bearish, tick)

\* UpdateTradingPermission of AdvancedBreakoutEA: the value of
\* gTradingAllowed (UseTimeFilter is off).
UpdateTradingPermission(gDailyStartBalance, tick) ==
    /\ ~(AccountBalance - gDailyStartBalance <= -MaxDailyLoss)
    /\ ~tick.drawdown
    /\ ~(GetOpenTrades(trades) >= eaInputs.MaxTrades)

\* A trailing stop that follows the price in both directions.
FollowPrice(t, tick) ==
    IF t.type = "BUY"
    THEN [t EXCEPT !.sl = NormalizeDouble(Bid - TrailPips * g_pointValue)]
    ELSE [t EXCEPT !.sl = NormalizeDouble(Ask + TrailPips * g_pointValue)]

\* ApplyTrailingStop on order t: OrderModify(ticket, OrderOpenPrice(), newSL,
\* OrderTakeProfit(), 0) when the test passes and the broker accepts it.
ApplyTrailingStop(t, tick) ==
    LET trailDistance == TrailPips * g_pointValue
        trailStep == TrailingStepPips * g_pointValue
        newSL == IF t.type = "BUY" THEN NormalizeDouble(Bid - trailDistance)
                 ELSE NormalizeDouble(Ask + trailDistance)
        move == IF eaInputs.name = "AdvancedBreakoutEA"
                THEN IF t.type = "BUY"
                     THEN (newSL > t.sl + trailStep \/ t.sl = 0) /\ newSL > t.open
                     ELSE (newSL < t.sl - trailStep \/ t.sl = 0) /\ newSL < t.open
                ELSE IF t.type = "BUY"
                     THEN newSL > t.sl /\ newSL > t.open
                     ELSE newSL < t.sl /\ newSL < t.open
    IN  IF move /\ tick.accept THEN [t EXCEPT !.sl = newSL] ELSE t

\* OnTick on the first tick of a new bar (on the other ticks it does
\* nothing): the daily balance at midnight, the risk rules, the levels, the
\* breakouts, the trailing stops.  CheckRiskManagement of BreakoutEA and
\* BacktestBreakoutEA writes the chart comment and returns; what follows in
\* OnTick does not depend on it.  tick holds what the terminal reports on
\* this tick: [levels, midnight, accept, volume, momentum, drawdown], levels
\* being what FindSRLevels finds on the chart; the last three are looked at
\* by AdvancedBreakoutEA only.
OnTick(tick) ==
    /\ eaInputs.name # ""
    /\ eaInputs.name # "AdvancedBreakoutEA" => tick.volume /\ tick.momentum = 1 /\ ~tick.drawdown
    /\ g_dailyBalance' = IF tick.midnight THEN AccountBalance ELSE g_dailyBalance
    /\ LET gTradingAllowed == IF eaInputs.name = "AdvancedBreakoutEA"
                              THEN UpdateTradingPermission(g_dailyBalance', tick)
                              ELSE TRUE
           opened == IF gTradingAllowed THEN CheckBreakouts(tick.levels, 1, trades, tick)
                     ELSE trades
       IN  /\ trades' = {ApplyTrailingStop(t, tick) : t \in opened}
           /\ lastBar' = [seq |-> 1 - lastBar.seq,
                          limit |-> AccountBalance - g_dailyBalance' <= -MaxDailyLoss,
                          opened |-> Cardinality(opened) - Cardinality(trades)]
    /\ UNCHANGED <<eaInputs, Bid, AccountBalance>>
    /\ UNCHANGED <<varsJson, varsPositions, varsBridge, varsCompile, varsSync, varsTools>>

\* Between two bars: the price moves, orders are closed (stop loss, take
\* profit, by hand) and the balance changes with them, the trader removes
\* the stop loss of some orders.
MarketMoves(bid, balance, closed, cleared) ==
    /\ eaInputs.name # ""
    /\ closed \subseteq trades
    /\ cleared \subseteq trades \ closed
    /\ Bid' = bid
    /\ AccountBalance' = balance
    /\ trades' = {IF t \in cleared THEN [t EXCEPT !.sl = 0] ELSE t : t \in trades \ closed}
    /\ UNCHANGED <<eaInputs, g_dailyBalance, lastBar>>
    /\ UNCHANGED <<varsJson, varsPositions, varsBridge, varsCompile, varsSync, varsTools>>

\* The experts at the start: OnInit takes the balance as the daily balance;
\* no order of the expert is open.  MaxTrades (MaxPositions) is 1 or 2.
InitSpecBreakout ==
    /\ eaInputs \in [name : {"BreakoutEA", "BacktestBreakoutEA", "AdvancedBreakoutEA"},
                      MaxTrades : {1, 2},
                      UseMomentumFilter : BOOLEAN]
    /\ eaInputs.name # "AdvancedBreakoutEA" => eaInputs.UseMomentumFilter = FALSE
    /\ Bid \in {p * g_pointValue : p \in {90, 114, 140, 160}}
    /\ AccountBalance \in {900, 1000}
    /\ g_dailyBalance = AccountBalance
    /\ trades = {}
    /\ lastBar = [seq |-> 0, limit |-> FALSE, opened |-> 0]
    /\ IdleJson /\ IdlePositions /\ IdleBridge /\ IdleCompile /\ IdleSync /\ IdleTools

SpecBreakout ==
    InitSpecBreakout
    /\ [][\/ \E tick \in [levels : {FindSRLevels(eaInputs.name, chart) : chart \in Charts},
                           midnight : BOOLEAN, accept : BOOLEAN,
                           volume : BOOLEAN, momentum : {-1, 1}, drawdown : BOOLEAN] :
                OnTick(tick)
          \/ \E bid \in {p * g_pointValue : p \in {90, 114, 140, 160}} :
             \E balance \in {900, 1000} :
             \E closed \in SUBSET trades :
             \E cleared \in {{}} \cup {{t} : t \in trades} :
                MarketMoves(bid, balance, closed, cleared)]_vars

\* C22 as stated: the number of open positions with the expert's magic
\* number never exceeds the configured maximum, for every maximum >= 1.
C22_NeverMoreThanMaximum ==
    Cardinality(trades) <= eaInputs.MaxTrades

\* C23 as stated: on a new bar on which the balance is at least MaxDailyLoss
\* below the daily start balance, the expert opens no trade.
C23_NoTradeAfterDailyLoss ==
    lastBar.limit => lastBar.opened = 0

\* C24: on every new bar ApplyTrailingStop leaves the open price and the
\* take profit of every order as they were, and changes the stop loss of a
\* BUY order only to a value strictly above the open price and strictly
\* above the previous stop loss when there was one (non-zero), of a SELL
\* order only to a value strictly below the open price and strictly below
\* the previous non-zero stop loss.
C24_TrailingStopOnlyTightens ==
    [][lastBar'.seq # lastBar.seq =>
          \A t \in trades :
              \E n \in trades' :
                  /\ n.ticket = t.ticket
                  /\ n.type = t.type
                  /\ n.open = t.open
                  /\ n.tp = t.tp
                  /\ n.sl # t.sl =>
                        IF t.type = "BUY"
                        THEN n.sl > t.open /\ (t.sl # 0 => n.sl > t.sl)
                        ELSE n.sl < t.open /\ (t.sl # 0 => n.sl < t.sl)]_vars

\* C24 happens: on the last bar the stop loss of a BUY order stands above
\* its open price and that of a SELL order below its open price, so both
\* have been trailed.
C24_Witness ==
    /\ lastBar.seq = 1
    /\ \E t \in trades : t.type = "BUY" /\ t.sl > t.open
    /\ \E t \in trades : t.type = "SELL" /\ t.sl # 0 /\ t.sl < t.open

(***************************************************************************)
(* Specifications                                                          *)
(***************************************************************************)
NextJson == ExtractStep

InitSpecJson == InitJson /\ IdlePositions /\ IdleBridge /\ IdleCompile /\ IdleSync /\ IdleTools /\ IdleBreakout

SpecJson == InitSpecJson /\ [][NextJson]_vars

NextPositions ==
    \/ \E type \in {OP_BUY, OP_SELL, OP_BUYLIMIT} : OrderOpens(type)
    \/ TickWritesPositions
    \/ GetPositions
    \/ \E days \in {7, 30} : GetHistory(days)

InitSpecPositions == IdleJson /\ InitPositions /\ IdleBridge /\ IdleCompile /\ IdleSync /\ IdleTools /\ IdleBreakout

SpecPositions == InitSpecPositions /\ [][NextPositions]_vars

\* The expert's timer keeps ticking and the client keeps asking.
SpecHistory ==
    /\ InitSpecPositions
    /\ [][NextPositions]_vars
    /\ WF_vars(TickWritesPositions)
    /\ WF_vars(\E days \in {7, 30} : GetHistory(days))

Next ==
    \/ \E kind \in Kinds : \E body \in Bodies(kind) : PostCommand(kind, body)
    \/ \E r \in 1..MaxRequests : ReadResult(r)
    \/ ProcessOrderCommands
    \/ ProcessCloseCommands
    \/ ProcessBacktestCommands

Init == IdleJson /\ IdlePositions /\ InitBridge /\ IdleCompile /\ IdleSync /\ IdleTools /\ IdleBreakout

Spec == Init /\ [][Next]_vars

NextCompile ==
    \/ \E ea_name \in {"", "MyEA"} : PostCompile(ea_name)
    \/ SpawnError
    \/ \E code \in {0, 1} : \E log \in CompileLogs : \E ex4 \in BOOLEAN :
          ProcessExits(code, log, ex4)
    \/ CloseReadLog
    \/ CloseResolve
    \/ TimerFires

InitSpecCompile == IdleJson /\ IdlePositions /\ IdleBridge /\ InitCompile /\ IdleSync /\ IdleTools /\ IdleBreakout

SpecCompile == InitSpecCompile /\ [][NextCompile]_vars

NextSync ==
    \/ \E name \in EaNames : \E content \in EaContents :
       \E fails \in {"nothing", "ea file", "sync log"} : SyncStart(name, content, fails)
    \/ \E c \in 1..MaxCalls : \E net \in {"ok", "timeout"} : \E logFails \in BOOLEAN :
          SyncFinish(c, net, logFails)
    \/ \E name \in EaNames : \E fails \in BOOLEAN : CompileEaStart(name, fails)
    \/ \E c \in 1..MaxCalls : \E remote \in {"success", "errors", "failed"} :
       \E fails \in {"nothing", "first", "all"} : CompileEaFinish(c, remote, fails)

InitSpecSync == IdleJson /\ IdlePositions /\ IdleBridge /\ IdleCompile /\ InitSync /\ IdleTools /\ IdleBreakout

SpecSync == InitSpecSync /\ [][NextSync]_vars

NextTools ==
    \/ \E name \in ToolNames \cup {"get_quotes"} :
       \E args \in {"absent", "empty", "full"} : \E local \in {"ok", "missing", "fails"} :
          CallTool(name, args, local)
    \/ \E api \in {"ok", "http", "timeout", "refused"} :
       \E local \in {"ok", "missing", "fails"} : ApiAnswers(api, local)

InitSpecTools == IdleJson /\ IdlePositions /\ IdleBridge /\ IdleCompile /\ IdleSync /\ InitTools /\ IdleBreakout

SpecTools == InitSpecTools /\ [][NextTools]_vars

====
